---- MODULE Spec2Model ----
(***************************************************************************)
(* Resilient agent-execution control loop (OpenClaw dual-loop pattern).    *)
(*                                                                         *)
(* Spec       : the outer retry/recovery loop runAgentWithRetry, one       *)
(*              action per path through one iteration of its while-loop.   *)
(* BudgetSpec : the pure function resolveMaxRunRetryIterations applied to  *)
(*              a bounded range of profile counts.                         *)
(*                                                                         *)
(* Time is in milliseconds, as returned by Date.now().                     *)
(***************************************************************************)
EXTENDS Integers, Sequences, FiniteSets, TLC

VARIABLES
    pc,                          \* position of runAgentWithRetry: "loop" | "attempt" | "done"
    iterations,                  \* let iterations
    overflowCompactionAttempts,  \* let overflowCompactionAttempts
    currentProfileIndex,         \* let currentProfileIndex (never reduced modulo the length)
    currentThinkLevel,           \* let currentThinkLevel
    messages,                    \* let messages (the conversation handed to the next attempt)
    totalTokenUsage,             \* const totalTokenUsage (mutated in place)
    authProfiles,                \* params.authProfiles (cooldownUntil is mutated in place)
    now,                         \* Date.now()
    call,                        \* arguments of the latest runSingleAttempt invocation
    attempt,                     \* the latest AttemptResult
    result,                      \* the value runAgentWithRetry resolved with
    cancelled,                   \* the caller's cancellation signal (never read by the loop)
    transport,                   \* behaviour of the inference transport during this run
    failures,                    \* number of attempts that have failed so far
    failedAt,                    \* Date.now() when the latest failed attempt was handled
    paramsThinkLevel,            \* params.thinkLevel
    budgetArg,                   \* BudgetSpec: profileCount handed to resolveMaxRunRetryIterations
    budgetRet,                   \* BudgetSpec: the value it returned
    toolCallHistory,             \* LoopDetectionState.toolCallHistory
    warningBuckets,              \* the Map handed to runBeforeToolCallHook as warningBuckets
    consoleWarnings,             \* the console.warn calls made so far: <<warningKey, count>>
    detection,                   \* result of detectToolCallLoop in the latest hook call
    hookOutcome,                 \* HookOutcome of the latest runBeforeToolCallHook
    inFlight,                    \* recorded tool calls whose result is not yet known
    outcomeCall,                 \* arguments of the latest recordToolCallOutcome call
    script,                      \* how the model under the guard issues its tool calls
    issued,                      \* number of tool calls issued so far
    recordLog,                   \* timestamps of all records ever pushed, in push order
    clock,                       \* Date.now() as seen by the guard
    thrown,                      \* ClassifySpec: the error message handed to classifyError
    classified,                  \* ClassifySpec: the AttemptError it returned
    store,                       \* auth_failover: the AuthStore shared by all runs
    profiles,                    \* auth_failover: params.profiles (profile ids, in order)
    failoverPc,                  \* auth_failover: "idle", "attempt", "returned" or "thrown"
    profileIndex,                \* auth_failover: let profileIndex
    currentProfile,              \* auth_failover: let currentProfile (its id)
    iteration,                   \* auth_failover: the for loop's counter
    failoverError,               \* auth_failover: message of the error the run threw
    advanceCall,                 \* auth_failover: latest advanceAuthProfile call and its return
    failoverNow,                 \* auth_failover: Date.now()
    runs,                        \* auth_failover: number of runs started on the store
    session,                     \* overflow recovery: the messages array of the session
    contextWindowTokens,         \* overflow recovery: params.contextWindowTokens
    threadedAttempts,            \* overflow recovery: the caller's let overflowCompactionAttempts
    recoveryInput,               \* overflow recovery: errorText, attemptCompactionCount of the latest call
    recovery,                    \* overflow recovery: latest return of handleContextOverflow
    compaction,                  \* overflow recovery: latest CompactionResult of compactSession
    summarizeCalls,              \* overflow recovery: number of calls of params.summarize
    handleCalls,                 \* overflow recovery: number of calls of handleContextOverflow
    sessionMsgs,                 \* prune: the messages of the session, with their parts
    pruneEnabled,                \* prune: config.compaction.prune is not false
    pruneNow,                    \* prune: Date.now()
    pruneCalls                   \* prune: number of calls of prune

retryVars == <<pc, iterations, overflowCompactionAttempts, currentProfileIndex,
               currentThinkLevel, messages, totalTokenUsage, authProfiles, now,
               call, attempt, result, cancelled,
               transport, failures, failedAt, paramsThinkLevel>>
budgetVars == <<budgetArg, budgetRet>>
guardVars == <<toolCallHistory, warningBuckets, consoleWarnings, detection, hookOutcome,
               inFlight, outcomeCall, script, issued, recordLog, clock>>
classifyVars == <<thrown, classified>>
failoverVars == <<store, profiles, failoverPc, profileIndex, currentProfile, iteration,
                  failoverError, advanceCall, failoverNow, runs>>
recoveryVars == <<session, contextWindowTokens, threadedAttempts, recoveryInput, recovery,
                  compaction, summarizeCalls, handleCalls>>
pruneVars == <<sessionMsgs, pruneEnabled, pruneNow, pruneCalls>>
vars == <<retryVars, budgetVars, guardVars, classifyVars, failoverVars, recoveryVars,
          pruneVars>>

\* what each component leaves alone: the variables of all the others
retryFrame == <<budgetVars, guardVars, classifyVars, failoverVars, recoveryVars,
    pruneVars>>
budgetFrame == <<retryVars, guardVars, classifyVars, failoverVars, recoveryVars,
    pruneVars>>
guardFrame == <<retryVars, budgetVars, classifyVars, failoverVars, recoveryVars,
    pruneVars>>
classifyFrame == <<retryVars, budgetVars, guardVars, failoverVars, recoveryVars,
    pruneVars>>
failoverFrame == <<retryVars, budgetVars, guardVars, classifyVars, recoveryVars,
    pruneVars>>
pruneFrame == <<retryVars, budgetVars, guardVars, classifyVars, failoverVars,
    recoveryVars>>
recoveryFrame == <<retryVars, budgetVars, guardVars, classifyVars, failoverVars,
    pruneVars>>

\* ---- bounds of the model ------------------------------------------------
MaxProfiles == 2        \* runs are explored with 1..MaxProfiles auth profiles
InitialLength == 3      \* number of turns of the conversation a run starts with
MaxNow == 60000         \* the environment advances the clock up to this instant
MaxFailures == 3        \* a flaky transport throws at most this many errors in a run
MaxBudgetArg == 60      \* BudgetSpec explores profile counts 0..MaxBudgetArg
MaxCalls == 32          \* GuardSpec: tool calls issued by a scripted run
MaxFreeCalls == 3       \* GuardSpec: tool calls issued by an unscripted run
MaxFragments == 2       \* ClassifySpec: an error message joins up to this many fragments
MaxFailoverProfiles == 3 \* FailoverSpec: runs are explored with 0..MaxFailoverProfiles profiles
MaxRuns == 2            \* FailoverSpec: runs started on one shared store
MaxFailoverNow == 120000 \* FailoverSpec: the clock advances up to this instant
MaxSessionLength == 6   \* RecoverySpec: sessions hold 1..MaxSessionLength messages
MaxHandleCalls == 6     \* RecoverySpec: calls of handleContextOverflow in one run
MaxPruneMessages == 6   \* PruneSpec: sessions hold 1..MaxPruneMessages messages
MaxPruneCalls == 2      \* PruneSpec: calls of prune on one session

\* ---- program constants --------------------------------------------------
BASE_ITERATIONS == 24
PER_PROFILE_ITERATIONS == 8
MIN_ITERATIONS == 32
MAX_ITERATIONS == 160
AUTH_COOLDOWN_MS == 60000
TIMEOUT_COOLDOWN_MS == 30000
RATE_LIMIT_SLEEP_MS == 5000
MAX_COMPACTIONS == 3
Undefined == 0          \* an absent cooldownUntil (falsy, like 0)

NoValue == "none"

Min(a, b) == IF a < b THEN a ELSE b
Max(a, b) == IF a > b THEN a ELSE b

\* ---- resolveMaxRunRetryIterations ---------------------------------------
\* variant: the upper clamp is forgotten
resolveMaxRunRetryIterationsNoCap(profileCount) ==
    LET raw == BASE_ITERATIONS + profileCount * PER_PROFILE_ITERATIONS
    IN  Max(MIN_ITERATIONS, raw)

resolveMaxRunRetryIterations(profileCount) ==
    LET raw == BASE_ITERATIONS + profileCount * PER_PROFILE_ITERATIONS
    IN  Min(MAX_ITERATIONS, Max(MIN_ITERATIONS, raw))

maxIterations == resolveMaxRunRetryIterations(Len(authProfiles))

\* ---- classifyError ------------------------------------------------------
\* Error messages the inference transport is taken to throw.  RegexMatches
\* tabulates, for each message, which of classifyError's five regular
\* expressions test true on it.
ErrorMessages ==
    { "401 Unauthorized", "context length exceeded", "request timed out",
      "429 too many requests", "thinking is not supported", "stub" }

\* Texts matched by the alternatives of each regular expression (all carry the
\* i flag, so case variants match too); Neutral texts match none.
PatternFragments ==
    [auth              |-> {"401", "403", "invalid api key", "Unauthorized"},
     overflow          |-> {"context window length", "too many tokens", "overflow"},
     timeout           |-> {"timeout", "timed out", "ETIMEDOUT"},
     rate_limit        |-> {"rate limit", "rate-limit", "429", "Too Many Requests"},
     thinking_mismatch |-> {"thinking is not supported", "budget_tokens"}]

NeutralFragments == {"connection reset", "stub"}

Fragments == NeutralFragments \cup UNION { PatternFragments[k] : k \in DOMAIN PatternFragments }

\* error messages made of one fragment or of two joined by " / "
Join(f, g) == f \o " / " \o g

\* the messages in which a fragment occurs: alone, or joined to another one
Occurrences ==
    [f \in Fragments |->
        {f} \cup {Join(f, g) : g \in Fragments} \cup {Join(g, f) : g \in Fragments}]

\* RegExp.test finds the pattern anywhere in the message
Contains(message, f) == message \in Occurrences[f]

RegexMatches(message) ==
    CASE message = "401 Unauthorized"          -> {"auth"}
      [] message = "context length exceeded"   -> {"overflow"}
      [] message = "request timed out"         -> {"timeout"}
      [] message = "429 too many requests"     -> {"rate_limit"}
      [] message = "thinking is not supported" -> {"thinking_mismatch"}
      [] message = "403 request timed out"     -> {"auth", "timeout"}
      [] message = "rate limit: too many tokens" -> {"overflow", "rate_limit"}
      [] OTHER -> { k \in DOMAIN PatternFragments :
                      \E f \in PatternFragments[k] : Contains(message, f) }

classifyErrorTimeoutFirst(message) ==
    IF "timeout" \in RegexMatches(message)
      THEN [type |-> "timeout", message |-> message, retryable |-> TRUE]
    ELSE IF "auth" \in RegexMatches(message)
      THEN [type |-> "auth", message |-> message, retryable |-> TRUE]
    ELSE IF "overflow" \in RegexMatches(message)
      THEN [type |-> "overflow", message |-> message, retryable |-> TRUE]
    ELSE IF "rate_limit" \in RegexMatches(message)
      THEN [type |-> "rate_limit", message |-> message, retryable |-> TRUE]
    ELSE IF "thinking_mismatch" \in RegexMatches(message)
      THEN [type |-> "thinking_mismatch", message |-> message, retryable |-> TRUE]
    ELSE [type |-> "unknown", message |-> message, retryable |-> FALSE]

classifyError(message) ==
    IF "auth" \in RegexMatches(message)
      THEN [type |-> "auth", message |-> message, retryable |-> TRUE]
    ELSE IF "overflow" \in RegexMatches(message)
      THEN [type |-> "overflow", message |-> message, retryable |-> TRUE]
    ELSE IF "timeout" \in RegexMatches(message)
      THEN [type |-> "timeout", message |-> message, retryable |-> TRUE]
    ELSE IF "rate_limit" \in RegexMatches(message)
      THEN [type |-> "rate_limit", message |-> message, retryable |-> TRUE]
    ELSE IF "thinking_mismatch" \in RegexMatches(message)
      THEN [type |-> "thinking_mismatch", message |-> message, retryable |-> TRUE]
    ELSE [type |-> "unknown", message |-> message, retryable |-> FALSE]

\* ---- downgradeThinkLevel ------------------------------------------------
levels == <<"off", "minimal", "low", "medium", "high", "xhigh">>

\* levels.indexOf(current), 1-based
IndexOfLevel(current) == CHOOSE i \in 1..Len(levels) : levels[i] = current

\* variant: a downgrade drops straight to "off"
downgradeThinkLevelToOff(current) == "off"

\* variant: below "off" the scale starts again from the top
downgradeThinkLevelWraps(current) ==
    LET idx == IndexOfLevel(current)
    IN  IF idx > 1 THEN levels[idx - 1] ELSE levels[Len(levels)]

downgradeThinkLevel(current) ==
    LET idx == IndexOfLevel(current)
    IN  IF idx > 1 THEN levels[idx - 1] ELSE "off"

\* ---- compactMessages ----------------------------------------------------
\* Math.ceil(length * ratio) for the two ratios the code uses
KeepCount(length, compactionAttempt) ==
    IF compactionAttempt = 1 \/ compactionAttempt = 2
      THEN (length + 1) \div 2        \* ceil(length * 0.5)
      ELSE (length + 3) \div 4        \* ceil(length * 0.25)

\* Array.prototype.slice(-keepCount); slice(-0) is slice(0), the whole array
SliceLast(msgs, keepCount) ==
    IF keepCount = 0 THEN msgs
    ELSE SubSeq(msgs, Len(msgs) - Min(keepCount, Len(msgs)) + 1, Len(msgs))

SummaryTurn == [role |-> "user", content |-> "<context_summary>"]
AckTurn == [role |-> "assistant",
            content |-> "Understood. Continuing with the summarized context."]

compactMessages(msgs, compactionAttempt) ==
    LET keepCount == KeepCount(Len(msgs), compactionAttempt)
        toKeep == SliceLast(msgs, keepCount)
    IN  <<SummaryTurn, AckTurn>> \o toKeep

\* ---- tool_loop_detection.ts ----------------------------------------------
TOOL_CALL_HISTORY_SIZE == 30
WARNING_THRESHOLD == 10
CRITICAL_THRESHOLD == 20
GLOBAL_CIRCUIT_BREAKER_THRESHOLD == 30
LOOP_WARNING_BUCKET_SIZE == 10

\* Tool parameters are written as their JSON text.  digestStable hashes the
\* key-sorted JSON, so two texts that differ only in key order get one digest.
digestStable(params) ==
    CASE params = "{action:poll,id:7}" -> "d-poll"
      [] params = "{id:7,action:poll}" -> "d-poll"
      [] params = "{path:f}"           -> "d-f"
      [] OTHER                         -> "d-other"

\* `${rec.toolName}:${rec.argsHash}`
RecordKey(rec) == <<rec.toolName, rec.argsHash>>

\* getNoProgressStreak: the backward walk from index i with the result hash
\* expected so far (NoValue while expectedResultHash is undefined)
RECURSIVE NoProgressFrom(_, _, _, _, _)
NoProgressFrom(history, i, toolName, argsHash, expectedResultHash) ==
    IF i = 0 THEN 0
    ELSE LET rec == history[i]
         IN  IF rec.toolName # toolName \/ rec.argsHash # argsHash THEN 0
             ELSE IF rec.resultHash = NoValue THEN 0
             ELSE IF expectedResultHash # NoValue /\ rec.resultHash # expectedResultHash THEN 0
             ELSE 1 + NoProgressFrom(history, i - 1, toolName, argsHash, rec.resultHash)

getNoProgressStreak(history, toolName, argsHash) ==
    NoProgressFrom(history, Len(history), toolName, argsHash, NoValue)

\* getPingPongStreak: number of tail entries alternating between expectKey and
\* the other key, walking backward from index i
RECURSIVE AlternationsFrom(_, _, _, _)
AlternationsFrom(history, i, expectKey, nextKey) ==
    IF i = 0 THEN 0
    ELSE IF RecordKey(history[i]) # expectKey THEN 0
    ELSE 1 + AlternationsFrom(history, i - 1, nextKey, expectKey)

\* resultsByKey.get(key) over the count tail entries that were walked
ResultsByKey(history, count, key) ==
    { history[i].resultHash :
        i \in { j \in (Len(history) - count + 1)..Len(history) :
                  RecordKey(history[j]) = key /\ history[j].resultHash # NoValue } }

getPingPongStreakIgnoringResults(history) ==
    IF Len(history) < 4 THEN [count |-> 0, noProgressEvidence |-> FALSE]
    ELSE LET lastKey == RecordKey(history[Len(history)])
             others == { i \in 1..(Len(history) - 1) : RecordKey(history[i]) # lastKey }
         IN  IF others = {} THEN [count |-> 0, noProgressEvidence |-> FALSE]
             ELSE LET otherKey == RecordKey(history[CHOOSE i \in others : \A j \in others : j <= i])
                      count == AlternationsFrom(history, Len(history), lastKey, otherKey)
                  IN  [count |-> count, noProgressEvidence |-> count >= 4]

getPingPongStreak(history) ==
    IF Len(history) < 4 THEN [count |-> 0, noProgressEvidence |-> FALSE]
    ELSE LET lastKey == RecordKey(history[Len(history)])
             others == { i \in 1..(Len(history) - 1) : RecordKey(history[i]) # lastKey }
         IN  IF others = {} THEN [count |-> 0, noProgressEvidence |-> FALSE]
             ELSE LET otherKey == RecordKey(history[CHOOSE i \in others : \A j \in others : j <= i])
                      count == AlternationsFrom(history, Len(history), lastKey, otherKey)
                  IN  [count |-> count,
                       noProgressEvidence |->
                          /\ Cardinality(ResultsByKey(history, count, lastKey)) <= 1
                          /\ Cardinality(ResultsByKey(history, count, otherKey)) <= 1
                          /\ count >= 4]

NotStuck == [stuck |-> FALSE, level |-> NoValue, detector |-> NoValue, count |-> 0,
             message |-> <<>>, warningKey |-> <<>>]

Stuck(level, detector, count, toolName, warningKey) ==
    [stuck |-> TRUE, level |-> level, detector |-> detector, count |-> count,
     message |-> <<level, detector, toolName, count>>, warningKey |-> warningKey]

detectToolCallLoop(history, toolName, params) ==
    IF Len(history) = 0 THEN NotStuck
    ELSE
    LET argsHash == digestStable(params)
        noProgressStreak == getNoProgressStreak(history, toolName, argsHash)
        pingPong == getPingPongStreak(history)
        recentCount == Cardinality({ i \in 1..Len(history) :
                          history[i].toolName = toolName /\ history[i].argsHash = argsHash })
    IN  IF noProgressStreak >= GLOBAL_CIRCUIT_BREAKER_THRESHOLD
          THEN Stuck("critical", "global_circuit_breaker", noProgressStreak, toolName, <<>>)
        ELSE IF noProgressStreak >= CRITICAL_THRESHOLD
          THEN Stuck("critical", "known_poll_no_progress", noProgressStreak, toolName, <<>>)
        ELSE IF noProgressStreak >= WARNING_THRESHOLD
          THEN Stuck("warning", "known_poll_no_progress", noProgressStreak, toolName,
                     <<"poll", toolName, argsHash>>)
        ELSE IF pingPong.count >= CRITICAL_THRESHOLD /\ pingPong.noProgressEvidence
          THEN Stuck("critical", "ping_pong", pingPong.count, toolName, <<>>)
        ELSE IF pingPong.count >= WARNING_THRESHOLD
          THEN Stuck("warning", "ping_pong", pingPong.count, toolName,
                     <<"pingpong", pingPong.count>>)
        ELSE IF recentCount >= WARNING_THRESHOLD
          THEN Stuck("warning", "generic_repeat", recentCount, toolName,
                     <<"repeat", toolName, argsHash>>)
        ELSE NotStuck

\* state.toolCallHistory.slice(-TOOL_CALL_HISTORY_SIZE)
SliceWindowKeepsOldest(history) ==
    IF Len(history) > TOOL_CALL_HISTORY_SIZE
      THEN SubSeq(history, 1, TOOL_CALL_HISTORY_SIZE)
      ELSE history

SliceWindow(history) ==
    IF Len(history) > TOOL_CALL_HISTORY_SIZE
      THEN SubSeq(history, Len(history) - TOOL_CALL_HISTORY_SIZE + 1, Len(history))
      ELSE history

recordToolCallWithResult(history, toolName, params, toolCallId, timestamp) ==
    SliceWindow(Append(history,
        [toolName |-> toolName, argsHash |-> digestStable(params),
         resultHash |-> digestStable(params), toolCallId |-> toolCallId,
         timestamp |-> timestamp]))

\* recordToolCall: the history after the push and the window cut
recordToolCall(history, toolName, params, toolCallId, timestamp) ==
    SliceWindow(Append(history,
        [toolName |-> toolName, argsHash |-> digestStable(params),
         resultHash |-> NoValue, toolCallId |-> toolCallId, timestamp |-> timestamp]))

\* recordToolCallOutcome: the record at which the backward loop returns
OutcomeMatches(rec, toolName, argsHash, toolCallId) ==
    \/ toolCallId # Undefined /\ rec.toolCallId = toolCallId
    \/ rec.toolName = toolName /\ rec.argsHash = argsHash /\ rec.resultHash = NoValue

recordToolCallOutcome(history, toolName, params, resultHash, toolCallId) ==
    LET argsHash == digestStable(params)
        hits == { i \in 1..Len(history) :
                    OutcomeMatches(history[i], toolName, argsHash, toolCallId) }
    IN  IF hits = {} THEN history
        ELSE LET i == CHOOSE h \in hits : \A k \in hits : k <= h
             IN  [history EXCEPT ![i].resultHash = resultHash]

\* shouldEmitLoopWarning: whether to warn, and the map afterwards
LastBucket(emittedBuckets, warningKey) ==
    IF warningKey \in DOMAIN emittedBuckets THEN emittedBuckets[warningKey] ELSE 0

shouldEmitLoopWarning(emittedBuckets, warningKey, count) ==
    (count \div LOOP_WARNING_BUCKET_SIZE) > LastBucket(emittedBuckets, warningKey)

BucketsAfter(emittedBuckets, warningKey, count) ==
    IF shouldEmitLoopWarning(emittedBuckets, warningKey, count)
      THEN [k \in DOMAIN emittedBuckets \cup {warningKey} |->
              IF k = warningKey THEN count \div LOOP_WARNING_BUCKET_SIZE
              ELSE emittedBuckets[k]]
      ELSE emittedBuckets

\* ---- runSingleAttempt ---------------------------------------------------
ZeroUsage == [inputTokens |-> 0, outputTokens |-> 0]

\* what callLLMWithToolLoop may resolve with
Usages == { [inputTokens |-> 10, outputTokens |-> 5],
            [inputTokens |-> 20, outputTokens |-> 0] }
FinalResponses == { "answer-1", "answer-2" }

\* an absent AttemptResult.error
NoError == [type |-> NoValue, message |-> NoValue, retryable |-> FALSE]

\* A payload text is a tuple of the parts the code concatenates.
AttemptSuccess(finalResponse, usage) ==
    [success |-> TRUE, payloads |-> <<[text |-> <<finalResponse>>, isError |-> FALSE]>>,
     error |-> NoError, tokenUsage |-> usage]

AttemptFailure(message) ==
    [success |-> FALSE, payloads |-> <<>>,
     error |-> classifyError(message), tokenUsage |-> ZeroUsage]

\* variant: the outputTokens line is forgotten
AddUsageInputOnly(total, usage) ==
    [inputTokens |-> total.inputTokens + usage.inputTokens,
     outputTokens |-> total.outputTokens]

AddUsage(total, usage) ==
    [inputTokens |-> total.inputTokens + usage.inputTokens,
     outputTokens |-> total.outputTokens + usage.outputTokens]

\* ---- runAgentWithRetry --------------------------------------------------
ProfileIds == <<"A", "B", "C", "D">>
BUDGET_TEXT == "Request failed after repeated internal retries."

\* position in authProfiles of params.authProfiles[currentProfileIndex % length]
SelectedIndex == (currentProfileIndex % Len(authProfiles)) + 1

\* variant: the profile still counts as cooling at the instant its cooldown ends
InCooldownInclusive(profile) ==
    profile.cooldownUntil # Undefined /\ now <= profile.cooldownUntil

\* variant: the comparison with the clock is inverted
InCooldownInverted(profile) ==
    profile.cooldownUntil # Undefined /\ now > profile.cooldownUntil

\* profile.cooldownUntil && Date.now() < profile.cooldownUntil
InCooldown(profile) ==
    profile.cooldownUntil # Undefined /\ now < profile.cooldownUntil

\* params.thinkLevel of the runs explored; the lower levels are reached by downgrades
InitialThinkLevels == {"xhigh", "high", "off"}

\* values of the locals before they are first assigned
NoCall == [authProfile |-> NoValue, thinkLevel |-> NoValue, messages |-> <<>>]
NoAttempt == [success |-> FALSE, payloads |-> <<>>, error |-> NoError, tokenUsage |-> ZeroUsage]
NoResult == [payloads |-> <<>>, totalTokenUsage |-> ZeroUsage]

InitialMessages(n) ==
    [i \in 1..n |-> [role |-> IF i % 2 = 1 THEN "user" ELSE "assistant",
                     content |-> IF i % 2 = 1 THEN "question" ELSE "reply"]]

RetryInit ==
    /\ pc = "loop"
    /\ iterations = 0
    /\ overflowCompactionAttempts = 0
    /\ currentProfileIndex = 0
    /\ paramsThinkLevel \in InitialThinkLevels
    /\ currentThinkLevel = paramsThinkLevel
    /\ messages = InitialMessages(InitialLength)
    /\ totalTokenUsage = ZeroUsage
    /\ \E n \in 1..MaxProfiles :
         authProfiles = [i \in 1..n |-> [id |-> ProfileIds[i], cooldownUntil |-> Undefined]]
    /\ now = 0
    /\ call = NoCall
    /\ attempt = NoAttempt
    /\ result = NoResult
    /\ cancelled = FALSE
    /\ transport \in {"flaky"} \cup ErrorMessages
    /\ failures = 0
    /\ failedAt = 0

\* ---- the tool-loop guard before its first call ---------------------------
NoBuckets == [k \in {} |-> 0]
NotBlocked == [blocked |-> FALSE, reason |-> <<>>]
NoOutcome == [toolName |-> NoValue, params |-> NoValue, resultHash |-> NoValue,
              toolCallId |-> Undefined]
NoScript == [kind |-> NoValue, changeAt |-> 0]

GuardFresh ==
    /\ toolCallHistory = <<>>
    /\ warningBuckets = NoBuckets
    /\ consoleWarnings = <<>>
    /\ detection = NotStuck
    /\ hookOutcome = NotBlocked
    /\ inFlight = <<>>
    /\ outcomeCall = NoOutcome
    /\ issued = 0
    /\ recordLog = <<>>
    /\ clock = 1

GuardIdle == GuardFresh /\ script = NoScript

\* ---- auth_failover.ts -------------------------------------------------------
COOLDOWN_MS == 60000
FAILOVER_BASE == 24
FAILOVER_PER_PROFILE == 8
TickMs == 30000

\* store.failures.get(profile.id) is undefined exactly when the id is outside
\* the domain of store.failures
isProfileInCooldown(st, profile, dateNow) ==
    IF profile \notin DOMAIN st.failures THEN FALSE
    ELSE dateNow < st.failures[profile].lastAt + COOLDOWN_MS

\* markProfileFailure: the store afterwards
markProfileFailure(st, profileId, reason, dateNow) ==
    LET existing == IF profileId \in DOMAIN st.failures THEN st.failures[profileId]
                    ELSE [count |-> 0, lastAt |-> 0, reason |-> ""]
    IN  [st EXCEPT !.failures =
            [id \in DOMAIN st.failures \cup {profileId} |->
                IF id = profileId
                  THEN [count |-> existing.count + 1, lastAt |-> dateNow, reason |-> reason]
                  ELSE st.failures[id]]]

resolveMaxRetryIterations(profileCount) ==
    FAILOVER_BASE + FAILOVER_PER_PROFILE * Max(1, profileCount)

\* advanceAuthProfile: the 0-based index it returns, or -1 for null
RECURSIVE AdvanceFrom(_, _, _, _)
AdvanceFrom(st, candidates, nextIndex, dateNow) ==
    IF nextIndex >= Len(candidates) THEN -1
    ELSE IF isProfileInCooldown(st, candidates[nextIndex + 1], dateNow)
      THEN AdvanceFrom(st, candidates, nextIndex + 1, dateNow)
    ELSE nextIndex

\* variant: the scan goes on from the start of the list after its end
advanceAuthProfileCircular(st, candidates, currentIndex, dateNow) ==
    LET n == Len(candidates)
        usable == { k \in 1..(n - 1) :
                      ~isProfileInCooldown(st, candidates[((currentIndex + k) % n) + 1],
                                           dateNow) }
    IN  IF usable = {} THEN -1
        ELSE (currentIndex + (CHOOSE k \in usable : \A j \in usable : k <= j)) % n

advanceAuthProfile(st, candidates, currentIndex, dateNow) ==
    AdvanceFrom(st, candidates, currentIndex + 1, dateNow)

\* classifyError of auth_failover.ts (its patterns differ from the outer loop's)
FailoverErrors ==
    { "401 Unauthorized", "429 too many requests", "connect ETIMEDOUT",
      "request timed out", "stub" }

classifyFailoverError(message) ==
    CASE message = "401 Unauthorized"      -> "auth_error"
      [] message = "429 too many requests" -> "rate_limit"
      [] message = "connect ETIMEDOUT"     -> "timeout"
      [] OTHER                             -> "unknown"

NoAdvance == [called |-> FALSE, from |-> 0, at |-> 0, index |-> -1]
EmptyStore == [failures |-> [id \in {} |-> 0], lastUsedProfileId |-> NoValue]

FailoverIdle ==
    /\ store = EmptyStore
    /\ profiles = <<>>
    /\ failoverPc = "idle"
    /\ profileIndex = 0
    /\ currentProfile = NoValue
    /\ iteration = 0
    /\ failoverError = NoValue
    /\ advanceCall = NoAdvance
    /\ failoverNow = 0
    /\ runs = 0

\* ---- context_overflow_recovery.ts --------------------------------------------
MAX_OVERFLOW_COMPACTION_ATTEMPTS == 3
CHARS_PER_TOKEN_ESTIMATE == 4
MIN_KEEP == 4
NOTE_FIXED_CHARS == 39

\* A message content is the first `kept` characters of what the message held
\* before, followed by the truncation note if one was appended; note is <<>>
\* or <<original length, truncated length>>.
Content(text, chars) == [text |-> text, kept |-> chars, note |-> <<>>]

\* number of decimal digits of n
RECURSIVE Digits(_)
Digits(n) == IF n < 10 THEN 1 ELSE 1 + Digits(n \div 10)

\* length of `\n\n[Truncated: original ${a} chars → ${b} chars]`
NoteLength(note) ==
    IF note = <<>> THEN 0 ELSE NOTE_FIXED_CHARS + Digits(note[1]) + Digits(note[2])

\* msg.content.length
ContentLength(content) == content.kept + NoteLength(content.note)

\* content.slice(0, n) + note, for a content longer than n
TruncatedContent(content, n) ==
    [text |-> content.text, kept |-> n, note |-> <<ContentLength(content), n>>]

RECURSIVE SumChars(_)
SumChars(msgs) ==
    IF msgs = <<>> THEN 0 ELSE ContentLength(msgs[1].content) + SumChars(Tail(msgs))

\* summarizeCompactionMessages(messages).estimatedTokens
estimatedTokens(msgs) ==
    (SumChars(msgs) + CHARS_PER_TOKEN_ESTIMATE - 1) \div CHARS_PER_TOKEN_ESTIMATE

\* Array.prototype.slice(start, end) with its negative-index rule
SliceIndex(len, k) == IF k < 0 THEN Max(len + k, 0) ELSE Min(k, len)
JsSlice(msgs, start, end) ==
    SubSeq(msgs, SliceIndex(Len(msgs), start) + 1, SliceIndex(Len(msgs), end))

\* isLikelyContextOverflowError / isCompactionFailureError
RecoveryErrors ==
    { "context length exceeded", "context window: compaction failed", "stub" }

isLikelyContextOverflowError(errorText) ==
    errorText \in {"context length exceeded", "context window: compaction failed"}

isCompactionFailureError(errorText) ==
    errorText = "context window: compaction failed"

\* compactSession: its CompactionResult and whether it called summarize.
\* estimatedTokens < contextWindowTokens * 0.8 is compared in tenths.
NotCompacted(msgs) ==
    [compacted |-> FALSE, messagesBefore |-> Len(msgs), messagesAfter |-> Len(msgs)]

compactSession(msgs, windowTokens) ==
    IF estimatedTokens(msgs) * 10 < windowTokens * 8 THEN NotCompacted(msgs)
    ELSE LET keepCount == Max(MIN_KEEP, Len(msgs) \div 5)
             toSummarize == JsSlice(msgs, 0, Len(msgs) - keepCount)
             toKeep == JsSlice(msgs, Len(msgs) - keepCount, Len(msgs))
         IN  [compacted |-> TRUE, messagesBefore |-> Len(msgs),
              messagesAfter |-> 1 + Len(toKeep)]

\* maxToolResultChars
maxToolResultChars(windowTokens) ==
    ((windowTokens * 3) \div 10) * CHARS_PER_TOKEN_ESTIMATE

Oversized(msg, windowTokens) ==
    /\ msg.role = "tool_result"
    /\ ContentLength(msg.content) > maxToolResultChars(windowTokens)

sessionHasOversizedToolResults(msgs, windowTokens) ==
    \E i \in 1..Len(msgs) : Oversized(msgs[i], windowTokens)

\* truncateOversizedToolResults: the array after the in-place assignments
truncateOversizedToolResults(msgs, windowTokens) ==
    [i \in 1..Len(msgs) |->
        IF Oversized(msgs[i], windowTokens)
          THEN [msgs[i] EXCEPT !.content =
                   TruncatedContent(msgs[i].content, maxToolResultChars(windowTokens))]
          ELSE msgs[i]]

truncatedCount(msgs, windowTokens) ==
    Cardinality({ i \in 1..Len(msgs) : Oversized(msgs[i], windowTokens) })

NoRecovery == [action |-> NoValue, overflowCompactionAttempts |-> 0,
               toolResultTruncated |-> FALSE, truncatedCount |-> 0]
NoRecoveryInput == [errorText |-> NoValue, attemptCompactionCount |-> 0]
NoCompaction == [compacted |-> FALSE, messagesBefore |-> 0, messagesAfter |-> 0]

RecoveryIdle ==
    /\ session = <<>>
    /\ contextWindowTokens = 0
    /\ threadedAttempts = 0
    /\ recoveryInput = NoRecoveryInput
    /\ recovery = NoRecovery
    /\ compaction = NoCompaction
    /\ summarizeCalls = 0
    /\ handleCalls = 0

\* ---- prune (part_003) ---------------------------------------------------------
PRUNE_MINIMUM == 20000
PRUNE_PROTECT == 40000
PRUNE_PROTECTED_TOOLS == {"skill"}
PROTECTED_TURNS == 2

\* A part is [type, tool, status, compacted, output]; compacted is
\* part.state.time.compacted (0 while unset) and output is the size of
\* part.state.output in tokens, which is what estimateTokens returns for it.
estimateTokens(output) == output

NoPruneWalk == [total |-> 0, pruned |-> 0, toPrune |-> {}, stop |-> FALSE]

\* the inner loop of prune over the parts k, k-1, .. 1 of message m
RECURSIVE WalkParts(_, _, _, _)
WalkParts(all, m, k, acc) ==
    IF k = 0 THEN acc
    ELSE LET part == all[m].parts[k]
         IN  IF part.type = "tool" /\ part.status = "completed"
               THEN IF part.tool \in PRUNE_PROTECTED_TOOLS THEN WalkParts(all, m, k - 1, acc)
                    ELSE IF part.compacted # 0 THEN [acc EXCEPT !.stop = TRUE]
                    ELSE LET estimate == estimateTokens(part.output)
                             total == acc.total + estimate
                         IN  WalkParts(all, m, k - 1,
                                IF total > PRUNE_PROTECT
                                  THEN [acc EXCEPT !.total = total,
                                                   !.pruned = acc.pruned + estimate,
                                                   !.toPrune = acc.toPrune \cup {<<m, k>>}]
                                  ELSE [acc EXCEPT !.total = total])
               ELSE WalkParts(all, m, k - 1, acc)

\* the outer loop of prune over the messages m, m-1, .. 1
RECURSIVE WalkMessages(_, _, _, _)
WalkMessages(all, m, turns, acc) ==
    IF m = 0 THEN acc
    ELSE LET msg == all[m]
             seen == IF msg.role = "user" THEN turns + 1 ELSE turns
         IN  IF seen < PROTECTED_TURNS THEN WalkMessages(all, m - 1, seen, acc)
             ELSE IF msg.role = "assistant" /\ msg.summary THEN acc
             ELSE LET after == WalkParts(all, m, Len(msg.parts), acc)
                  IN  IF after.stop THEN after
                      ELSE WalkMessages(all, m - 1, seen, after)

\* prune: the messages after the parts marked for pruning were updated
prune(all, enabled, dateNow) ==
    IF ~enabled THEN all
    ELSE LET walk == WalkMessages(all, Len(all), 0, NoPruneWalk)
         IN  IF walk.pruned > PRUNE_MINIMUM
               THEN [m \in 1..Len(all) |->
                       [all[m] EXCEPT !.parts =
                           [k \in 1..Len(all[m].parts) |->
                               IF <<m, k>> \in walk.toPrune
                                 THEN [all[m].parts[k] EXCEPT !.compacted = dateNow]
                                 ELSE all[m].parts[k]]]]
               ELSE all

PruneIdle ==
    /\ sessionMsgs = <<>>
    /\ pruneEnabled = TRUE
    /\ pruneNow = 1
    /\ pruneCalls = 0

ClassifyIdle == thrown = NoValue /\ classified = NoError

BudgetIdle == budgetArg = 0 /\ budgetRet = <<>>

Init ==
    RetryInit /\ BudgetIdle /\ GuardIdle /\ ClassifyIdle /\ FailoverIdle /\ RecoveryIdle
        /\ PruneIdle

\* negation of the guard `iterations >= maxIterations` (line 198)
BudgetLeftOffByOne == iterations <= maxIterations
BudgetLeft == iterations < maxIterations

\* Guard: max iterations (lines 198-203)
BudgetExhausted ==
    /\ pc = "loop"
    /\ ~BudgetLeft
    /\ result' = [payloads |-> <<[text |-> <<BUDGET_TEXT>>, isError |-> TRUE]>>,
                  totalTokenUsage |-> totalTokenUsage]
    /\ pc' = "done"
    /\ UNCHANGED <<iterations, overflowCompactionAttempts, currentProfileIndex,
                   currentThinkLevel, messages, totalTokenUsage, authProfiles, now,
                   call, attempt, cancelled,
                   transport, failures, failedAt, paramsThinkLevel>>
    /\ UNCHANGED retryFrame

\* Skip profiles in cooldown (lines 204-213)
SkipCooldown ==
    /\ pc = "loop"
    /\ BudgetLeft
    /\ InCooldown(authProfiles[SelectedIndex])
    /\ iterations' = iterations + 1
    /\ currentProfileIndex' = currentProfileIndex + 1
    /\ UNCHANGED <<pc, overflowCompactionAttempts, currentThinkLevel, messages,
                   totalTokenUsage, authProfiles, now, call, attempt, result, cancelled,
                   transport, failures, failedAt, paramsThinkLevel>>
    /\ UNCHANGED retryFrame

\* Select the profile and invoke runSingleAttempt (lines 204-222)
InvokeAttempt ==
    /\ pc = "loop"
    /\ BudgetLeft
    /\ ~InCooldown(authProfiles[SelectedIndex])
    /\ iterations' = iterations + 1
    /\ call' = [authProfile |-> authProfiles[SelectedIndex].id,
                thinkLevel |-> currentThinkLevel,
                messages |-> messages]
    /\ pc' = "attempt"
    /\ UNCHANGED <<overflowCompactionAttempts, currentProfileIndex, currentThinkLevel,
                   messages, totalTokenUsage, authProfiles, now, attempt, result, cancelled,
                   transport, failures, failedAt, paramsThinkLevel>>
    /\ UNCHANGED retryFrame

\* The attempt resolves with success (lines 140-156, 225-231)
AttemptSucceeds ==
    /\ pc = "attempt"
    /\ transport = "flaky"
    /\ \E finalResponse \in FinalResponses, usage \in Usages :
         LET a == AttemptSuccess(finalResponse, usage)
             total == AddUsage(totalTokenUsage, a.tokenUsage)
         IN  /\ attempt' = a
             /\ totalTokenUsage' = total
             /\ result' = [payloads |-> a.payloads, totalTokenUsage |-> total]
    /\ pc' = "done"
    /\ UNCHANGED <<iterations, overflowCompactionAttempts, currentProfileIndex,
                   currentThinkLevel, messages, authProfiles, now, call, cancelled,
                   transport, failures, failedAt, paramsThinkLevel>>
    /\ UNCHANGED retryFrame

\* The transport behaves in one of two ways during a run: "flaky" (any
\* attempt may succeed or throw any error, at most MaxFailures times), or it
\* persistently throws one given error message at every attempt.
Throws(message) ==
    \/ transport = message
    \/ transport = "flaky" /\ failures < MaxFailures

\* The attempt resolves with a classified failure of the given type; the
\* usage of the failed attempt is accumulated (lines 157-164, 225-236)
Fails(message, type) ==
    /\ pc = "attempt"
    /\ Throws(message)
    /\ failures' = failures + 1
    /\ failedAt' = now
    /\ paramsThinkLevel' = paramsThinkLevel
    /\ transport' = transport
    /\ AttemptFailure(message).error.type = type
    /\ attempt' = AttemptFailure(message)
    /\ totalTokenUsage' = AddUsage(totalTokenUsage, AttemptFailure(message).tokenUsage)

\* case "overflow", tiers 1-3 (lines 237-243)
OverflowCompact ==
    /\ \E message \in ErrorMessages : Fails(message, "overflow")
    /\ overflowCompactionAttempts + 1 <= MAX_COMPACTIONS
    /\ overflowCompactionAttempts' = overflowCompactionAttempts + 1
    /\ messages' = compactMessages(messages, overflowCompactionAttempts + 1)
    /\ pc' = "loop"
    /\ UNCHANGED <<iterations, currentProfileIndex, currentThinkLevel, authProfiles,
                   now, call, result, cancelled>>
    /\ UNCHANGED retryFrame

\* case "overflow", tier 4 (lines 237-249)
OverflowDowngrade ==
    /\ \E message \in ErrorMessages : Fails(message, "overflow")
    /\ overflowCompactionAttempts + 1 > MAX_COMPACTIONS
    /\ currentThinkLevel # "off"
    /\ overflowCompactionAttempts' = overflowCompactionAttempts + 1
    /\ currentThinkLevel' = downgradeThinkLevel(currentThinkLevel)
    /\ pc' = "loop"
    /\ UNCHANGED <<iterations, currentProfileIndex, messages, authProfiles,
                   now, call, result, cancelled>>
    /\ UNCHANGED retryFrame

\* variant: the overflow rotation also cools the profile it leaves
OverflowRotateWithCooldown ==
    /\ \E message \in ErrorMessages : Fails(message, "overflow")
    /\ overflowCompactionAttempts + 1 > MAX_COMPACTIONS
    /\ currentThinkLevel = "off"
    /\ overflowCompactionAttempts' = overflowCompactionAttempts + 1
    /\ currentProfileIndex' = currentProfileIndex + 1
    /\ authProfiles' = [authProfiles EXCEPT ![SelectedIndex].cooldownUntil =
                                               now + TIMEOUT_COOLDOWN_MS]
    /\ pc' = "loop"
    /\ UNCHANGED <<iterations, currentThinkLevel, messages,
                   now, call, result, cancelled>>
    /\ UNCHANGED retryFrame

\* case "overflow", tier 5 (lines 237-254)
OverflowRotate ==
    /\ \E message \in ErrorMessages : Fails(message, "overflow")
    /\ overflowCompactionAttempts + 1 > MAX_COMPACTIONS
    /\ currentThinkLevel = "off"
    /\ overflowCompactionAttempts' = overflowCompactionAttempts + 1
    /\ currentProfileIndex' = currentProfileIndex + 1
    /\ pc' = "loop"
    /\ UNCHANGED <<iterations, currentThinkLevel, messages, authProfiles,
                   now, call, result, cancelled>>
    /\ UNCHANGED retryFrame

\* variant: an auth failure gets the timeout's cooldown
AuthFailureShortCooldown ==
    /\ \E message \in ErrorMessages : Fails(message, "auth")
    /\ authProfiles' = [authProfiles EXCEPT
                          ![SelectedIndex].cooldownUntil = now + TIMEOUT_COOLDOWN_MS]
    /\ currentProfileIndex' = currentProfileIndex + 1
    /\ pc' = "loop"
    /\ UNCHANGED <<iterations, overflowCompactionAttempts, currentThinkLevel, messages,
                   now, call, result, cancelled>>
    /\ UNCHANGED retryFrame

\* case "auth" (lines 256-261)
AuthFailure ==
    /\ \E message \in ErrorMessages : Fails(message, "auth")
    /\ authProfiles' = [authProfiles EXCEPT
                          ![SelectedIndex].cooldownUntil = now + AUTH_COOLDOWN_MS]
    /\ currentProfileIndex' = currentProfileIndex + 1
    /\ pc' = "loop"
    /\ UNCHANGED <<iterations, overflowCompactionAttempts, currentThinkLevel, messages,
                   now, call, result, cancelled>>
    /\ UNCHANGED retryFrame

\* variant: the cooldown is written to the profile rotated to
TimeoutFailureMarksNext ==
    /\ \E message \in ErrorMessages : Fails(message, "timeout")
    /\ authProfiles' = [authProfiles EXCEPT
                          ![((currentProfileIndex + 1) % Len(authProfiles)) + 1].cooldownUntil
                              = now + TIMEOUT_COOLDOWN_MS]
    /\ currentProfileIndex' = currentProfileIndex + 1
    /\ pc' = "loop"
    /\ UNCHANGED <<iterations, overflowCompactionAttempts, currentThinkLevel, messages,
                   now, call, result, cancelled>>
    /\ UNCHANGED retryFrame

\* case "timeout" (lines 263-268)
TimeoutFailure ==
    /\ \E message \in ErrorMessages : Fails(message, "timeout")
    /\ authProfiles' = [authProfiles EXCEPT
                          ![SelectedIndex].cooldownUntil = now + TIMEOUT_COOLDOWN_MS]
    /\ currentProfileIndex' = currentProfileIndex + 1
    /\ pc' = "loop"
    /\ UNCHANGED <<iterations, overflowCompactionAttempts, currentThinkLevel, messages,
                   now, call, result, cancelled>>
    /\ UNCHANGED retryFrame

\* variant: a rate-limited profile is rotated away from
RateLimitFailureRotates ==
    /\ \E message \in ErrorMessages : Fails(message, "rate_limit")
    /\ now' = now + RATE_LIMIT_SLEEP_MS
    /\ currentProfileIndex' = currentProfileIndex + 1
    /\ pc' = "loop"
    /\ UNCHANGED <<iterations, overflowCompactionAttempts,
                   currentThinkLevel, messages, authProfiles, call, result, cancelled>>
    /\ UNCHANGED retryFrame

\* case "rate_limit": await sleep(5_000) lets the clock advance (lines 270-274)
RateLimitFailure ==
    /\ \E message \in ErrorMessages : Fails(message, "rate_limit")
    /\ now' = now + RATE_LIMIT_SLEEP_MS
    /\ pc' = "loop"
    /\ UNCHANGED <<iterations, overflowCompactionAttempts, currentProfileIndex,
                   currentThinkLevel, messages, authProfiles, call, result, cancelled>>
    /\ UNCHANGED retryFrame

\* case "thinking_mismatch" (lines 276-280)
ThinkingMismatchFailure ==
    /\ \E message \in ErrorMessages : Fails(message, "thinking_mismatch")
    /\ currentThinkLevel' = downgradeThinkLevel(currentThinkLevel)
    /\ pc' = "loop"
    /\ UNCHANGED <<iterations, overflowCompactionAttempts, currentProfileIndex,
                   messages, authProfiles, now, call, result, cancelled>>
    /\ UNCHANGED retryFrame

\* variant: an unknown error is retried on the next profile
UnknownFailureRetries ==
    /\ \E message \in ErrorMessages : Fails(message, "unknown")
    /\ currentProfileIndex' = currentProfileIndex + 1
    /\ pc' = "loop"
    /\ UNCHANGED <<iterations, overflowCompactionAttempts, currentThinkLevel, messages,
                   authProfiles, now, call, result, cancelled>>
    /\ UNCHANGED retryFrame

\* default: unknown error, not retryable (lines 282-288)
UnknownFailure ==
    /\ \E message \in ErrorMessages :
         /\ Fails(message, "unknown")
         /\ result' = [payloads |-> <<[text |-> <<"Error: ", message>>, isError |-> TRUE]>>,
                       totalTokenUsage |-> totalTokenUsage']
    /\ pc' = "done"
    /\ UNCHANGED <<iterations, overflowCompactionAttempts, currentProfileIndex,
                   currentThinkLevel, messages, authProfiles, now, call, cancelled>>
    /\ UNCHANGED retryFrame

\* ---- environment --------------------------------------------------------
\* Date.now() advances.  The loop only ever compares the clock with a
\* cooldownUntil, so the clock is advanced to the instants just before and
\* exactly at the expiry of some cooldown.
Tick ==
    /\ pc # "done"
    /\ \E i \in 1..Len(authProfiles) :
       \E t \in {authProfiles[i].cooldownUntil - 1, authProfiles[i].cooldownUntil} :
         /\ t > now
         /\ t <= MaxNow
         /\ now' = t
    /\ UNCHANGED <<pc, iterations, overflowCompactionAttempts, currentProfileIndex,
                   currentThinkLevel, messages, totalTokenUsage, authProfiles,
                   call, attempt, result, cancelled,
                   transport, failures, failedAt, paramsThinkLevel>>
    /\ UNCHANGED retryFrame

\* The caller's cancellation signal fires while an attempt is in flight.
\* RunParams carries no signal and nothing in the loop observes one.
Cancel ==
    /\ pc = "attempt"
    /\ ~cancelled
    /\ cancelled' = TRUE
    /\ UNCHANGED <<pc, iterations, overflowCompactionAttempts, currentProfileIndex,
                   currentThinkLevel, messages, totalTokenUsage, authProfiles, now,
                   call, attempt, result,
                   transport, failures, failedAt, paramsThinkLevel>>
    /\ UNCHANGED retryFrame

Next ==
    \/ BudgetExhausted
    \/ SkipCooldown
    \/ InvokeAttempt
    \/ AttemptSucceeds
    \/ OverflowCompact
    \/ OverflowDowngrade
    \/ OverflowRotate
    \/ AuthFailure
    \/ TimeoutFailure
    \/ RateLimitFailure
    \/ ThinkingMismatchFailure
    \/ UnknownFailure
    \/ Tick
    \/ Cancel

Spec == Init /\ [][Next]_vars

\* The loop keeps executing and every awaited attempt eventually resolves.
LoopStep ==
    \/ BudgetExhausted \/ SkipCooldown \/ InvokeAttempt \/ AttemptSucceeds
    \/ OverflowCompact \/ OverflowDowngrade \/ OverflowRotate
    \/ AuthFailure \/ TimeoutFailure \/ RateLimitFailure
    \/ ThinkingMismatchFailure \/ UnknownFailure

FairSpec == Spec /\ WF_vars(LoopStep)

\* ---- BudgetSpec: resolveMaxRunRetryIterations on its own ------------------
RetryIdle ==
    /\ pc = "done"
    /\ iterations = 0
    /\ overflowCompactionAttempts = 0
    /\ currentProfileIndex = 0
    /\ currentThinkLevel = "off"
    /\ messages = <<>>
    /\ totalTokenUsage = ZeroUsage
    /\ authProfiles = <<>>
    /\ now = 0
    /\ call = NoCall
    /\ attempt = NoAttempt
    /\ result = NoResult
    /\ cancelled = FALSE
    /\ transport = "flaky"
    /\ failures = 0
    /\ failedAt = 0
    /\ paramsThinkLevel = "off"

BudgetInit ==
    /\ RetryIdle
    /\ GuardIdle
    /\ ClassifyIdle
    /\ FailoverIdle
    /\ RecoveryIdle
    /\ PruneIdle
    /\ budgetArg \in 0..MaxBudgetArg
    /\ budgetRet = <<>>

ResolveBudget ==
    /\ budgetRet = <<>>
    /\ budgetRet' = <<resolveMaxRunRetryIterations(budgetArg)>>
    /\ UNCHANGED <<budgetArg, budgetFrame>>

BudgetNext == ResolveBudget

BudgetSpec == BudgetInit /\ [][BudgetNext]_vars

\* ---- the agent loop around the guard (usage example) ----------------------
\* The calls a run makes come from one of these scripts:
\*   repeat    one poll call over and over, every result the same
\*   progress  one poll call over and over, the result changing every time
\*   pingpong  a read and an edit in turn; from call changeAt on (0: never)
\*             the read returns something new
\*   direct    as repeat, but calls may also be recorded without the hook
\*   free      up to MaxFreeCalls calls of any kind, results in any order
\*   batch     MaxFreeCalls poll calls issued together; call k returns r1 (k odd)
\*             or r2 (k even), and the results arrive in any order
\*   pending   a read and an edit in turn; every edit throws, so that
\*             executeToolWithLoopDetection never records its outcome
\*   repeat_then_other, pingpong_then_other
\*             as repeat, and as pingpong with nothing changing, until a
\*             call is blocked; from then on the model calls list_dir
PingPongChanges == {0} \cup { c \in 2..CRITICAL_THRESHOLD : c % 2 = 1 }

Scripts ==
    { [kind |-> k, changeAt |-> 0] : k \in {"repeat", "progress", "direct", "free", "batch", "pending",
                                      "repeat_then_other", "pingpong_then_other"} }
      \cup { [kind |-> "pingpong", changeAt |-> c] : c \in PingPongChanges }

ToolCall(toolName, params, toolCallId) ==
    [toolName |-> toolName, params |-> params, toolCallId |-> toolCallId]

\* the model has seen a block and has turned to another tool
ChoseDifferently ==
    /\ script.kind \in {"repeat_then_other", "pingpong_then_other"}
    /\ \/ hookOutcome.blocked
       \/ /\ toolCallHistory # <<>>
          /\ toolCallHistory[Len(toolCallHistory)].toolName = "list_dir"

\* the k-th call of a scripted run
ScriptedCall(k) ==
    IF ChoseDifferently THEN ToolCall("list_dir", "{path:d}", k)
    ELSE IF script.kind \in {"pingpong", "pending", "pingpong_then_other"}
      THEN IF k % 2 = 1 THEN ToolCall("read_file", "{path:f}", k)
                        ELSE ToolCall("edit_file", "{path:f}", k)
      ELSE IF k % 2 = 1 THEN ToolCall("process", "{action:poll,id:7}", k)
                        ELSE ToolCall("process", "{id:7,action:poll}", k)

\* the result hash of the k-th call of a scripted run
ScriptedResult(k) ==
    CASE script.kind \in {"progress", "batch"} -> IF k % 2 = 1 THEN "r1" ELSE "r2"
      [] script.kind = "pingpong_then_other" -> IF k % 2 = 0 THEN "r2" ELSE "r1"
      [] script.kind = "pingpong" ->
            IF k % 2 = 0 THEN "r2"
            ELSE IF script.changeAt # 0 /\ k >= script.changeAt THEN "r3" ELSE "r1"
      [] OTHER -> "r1"

FreeCalls ==
    { ToolCall(t[1], t[2], id) :
        t \in {<<"process", "{action:poll,id:7}">>, <<"read_file", "{path:f}">>},
        id \in {Undefined, issued + 1} }

NextCalls ==
    IF script.kind = "free"
      THEN IF issued < MaxFreeCalls THEN FreeCalls ELSE {}
      ELSE IF script.kind = "batch"
        THEN IF issued < MaxFreeCalls THEN {ScriptedCall(issued + 1)} ELSE {}
      ELSE IF issued < MaxCalls /\ inFlight = <<>> THEN {ScriptedCall(issued + 1)} ELSE {}

ResultsFor(c) ==
    IF script.kind = "free" THEN {"r1", "r2"}
    ELSE IF script.kind = "batch" /\ issued < MaxFreeCalls THEN {}
    ELSE IF script.kind = "pending" /\ c.toolName = "edit_file" THEN {}
    ELSE {ScriptedResult(c.toolCallId)}

RemoveAt(s, i) == SubSeq(s, 1, i - 1) \o SubSeq(s, i + 1, Len(s))

\* runBeforeToolCallHook: the early return with blocked: true
BlocksOnAnyDetection(loopResult) == loopResult.stuck

Blocks(loopResult) == loopResult.stuck /\ loopResult.level = "critical"

\* runBeforeToolCallHook: detect, block or warn, record
RunBeforeToolCallHook ==
    /\ script.kind # NoValue
    /\ \E c \in NextCalls :
         LET loopResult == detectToolCallLoop(toolCallHistory, c.toolName, c.params)
             blocked == Blocks(loopResult)
             keyed == loopResult.stuck /\ ~blocked /\ loopResult.warningKey # <<>>
             warn == keyed /\ shouldEmitLoopWarning(warningBuckets, loopResult.warningKey,
                                                    loopResult.count)
         IN  /\ detection' = loopResult
             /\ hookOutcome' = IF blocked
                                 THEN [blocked |-> TRUE, reason |-> loopResult.message]
                                 ELSE NotBlocked
             /\ warningBuckets' = IF keyed
                                    THEN BucketsAfter(warningBuckets, loopResult.warningKey,
                                                      loopResult.count)
                                    ELSE warningBuckets
             /\ consoleWarnings' = IF warn
                                     THEN Append(consoleWarnings,
                                                 <<loopResult.warningKey, loopResult.count>>)
                                     ELSE consoleWarnings
             /\ toolCallHistory' = IF blocked THEN toolCallHistory
                                   ELSE recordToolCall(toolCallHistory, c.toolName, c.params,
                                                       c.toolCallId, clock)
             /\ recordLog' = IF blocked THEN recordLog ELSE Append(recordLog, clock)
             /\ inFlight' = IF blocked THEN inFlight ELSE Append(inFlight, c)
    /\ issued' = issued + 1
    /\ clock' = clock + 1
    /\ UNCHANGED <<outcomeCall, script, guardFrame>>

\* recordToolCall called by a caller that does not go through the hook
RecordToolCall ==
    /\ script.kind \in {"direct", "free"}
    /\ \E c \in NextCalls :
         /\ toolCallHistory' = recordToolCall(toolCallHistory, c.toolName, c.params,
                                              c.toolCallId, clock)
         /\ inFlight' = Append(inFlight, c)
    /\ recordLog' = Append(recordLog, clock)
    /\ issued' = issued + 1
    /\ clock' = clock + 1
    /\ UNCHANGED <<warningBuckets, consoleWarnings, detection, hookOutcome, outcomeCall,
                   script, guardFrame>>

\* recordToolCallOutcome for a call whose tool has finished
RecordToolCallOutcome ==
    /\ \E i \in 1..Len(inFlight) :
         \E r \in ResultsFor(inFlight[i]) :
            LET c == inFlight[i]
            IN  /\ toolCallHistory' = recordToolCallOutcome(toolCallHistory, c.toolName,
                                                            c.params, r, c.toolCallId)
                /\ outcomeCall' = [toolName |-> c.toolName, params |-> c.params,
                                   resultHash |-> r, toolCallId |-> c.toolCallId]
                /\ inFlight' = RemoveAt(inFlight, i)
    /\ UNCHANGED <<warningBuckets, consoleWarnings, detection, hookOutcome, script, issued,
                   recordLog, clock, guardFrame>>

\* executeFn rejects: executeToolWithLoopDetection leaves through the await and
\* recordToolCallOutcome is not called for this call
ToolThrows ==
    /\ script.kind = "pending"
    /\ inFlight # <<>>
    /\ inFlight[1].toolName = "edit_file"
    /\ inFlight' = Tail(inFlight)
    /\ UNCHANGED <<toolCallHistory, warningBuckets, consoleWarnings, detection, hookOutcome,
                   outcomeCall, script, issued, recordLog, clock, guardFrame>>

GuardInit ==
    /\ RetryIdle
    /\ BudgetIdle
    /\ ClassifyIdle
    /\ FailoverIdle
    /\ RecoveryIdle
    /\ PruneIdle
    /\ GuardFresh
    /\ script \in Scripts

GuardNext ==
    \/ RunBeforeToolCallHook
    \/ RecordToolCall
    \/ RecordToolCallOutcome
    \/ ToolThrows

GuardSpec == GuardInit /\ [][GuardNext]_vars

\* ---- classifyError applied to one thrown error ----------------------------
ClassifyMessages ==
    IF MaxFragments < 2 THEN Fragments
    ELSE Fragments \cup { Join(f, g) : f, g \in Fragments }

ClassifyInit ==
    /\ RetryIdle
    /\ BudgetIdle
    /\ GuardIdle
    /\ FailoverIdle
    /\ RecoveryIdle
    /\ PruneIdle
    /\ thrown \in ClassifyMessages
    /\ classified = NoError

ClassifyError ==
    /\ classified = NoError
    /\ classified' = classifyError(thrown)
    /\ UNCHANGED <<thrown, classifyFrame>>

ClassifyNext == ClassifyError

ClassifySpec == ClassifyInit /\ [][ClassifyNext]_vars

\* ---- the retry loop around handleContextOverflow (usage example) -------------
TurnKinds ==
    { [role |-> "user", content |-> Content("question", 8)],
      [role |-> "tool_result", content |-> Content("listing", 12)],
      [role |-> "tool_result", content |-> Content("dump", 60)] }

Sessions == UNION { [1..n -> TurnKinds] : n \in 1..MaxSessionLength }

RecoveryInit ==
    /\ RetryIdle
    /\ BudgetIdle
    /\ GuardIdle
    /\ ClassifyIdle
    /\ FailoverIdle
    /\ PruneIdle
    /\ session \in Sessions
    /\ contextWindowTokens \in {10, 20}
    /\ threadedAttempts = 0
    /\ recoveryInput = NoRecoveryInput
    /\ recovery = NoRecovery
    /\ compaction = NoCompaction
    /\ summarizeCalls = 0
    /\ handleCalls = 0

\* the value handleContextOverflow returns, with the truncatedCount that its
\* console.info reports
Recovered(action, attempts, truncated) ==
    [action |-> action, overflowCompactionAttempts |-> attempts,
     toolResultTruncated |-> truncated,
     truncatedCount |-> IF truncated THEN truncatedCount(session, contextWindowTokens)
                        ELSE 0]

\* overflowCompactionAttempts < MAX_OVERFLOW_COMPACTION_ATTEMPTS (lines 206, 217)
BelowCapInclusive(attempts) == attempts <= MAX_OVERFLOW_COMPACTION_ATTEMPTS

BelowCap(attempts) == attempts < MAX_OVERFLOW_COMPACTION_ATTEMPTS

\* tier 3 and the final return of handleContextOverflow (lines 237-257)
TruncateOrFail(attempts) ==
    IF sessionHasOversizedToolResults(session, contextWindowTokens)
      THEN /\ session' = truncateOversizedToolResults(session, contextWindowTokens)
           /\ recovery' = Recovered("retry", attempts, TRUE)
      ELSE /\ session' = session
           /\ recovery' = Recovered("fail", attempts, FALSE)

\* one call of handleContextOverflow by the retry loop, which then stores the
\* returned counter (lines 178-258, 268-281)
HandleContextOverflow ==
    /\ recovery.action # "fail"
    /\ handleCalls < MaxHandleCalls
    /\ handleCalls' = handleCalls + 1
    /\ \E errorText \in RecoveryErrors, attemptCompactionCount \in {0, 1} :
         LET hadAutoCompaction == attemptCompactionCount > 0
             below == BelowCap(threadedAttempts)
             compactResult == compactSession(session, contextWindowTokens)
         IN  /\ recoveryInput' = [errorText |-> errorText,
                                  attemptCompactionCount |-> attemptCompactionCount]
             /\ IF \/ ~isLikelyContextOverflowError(errorText)
                   \/ isCompactionFailureError(errorText)
                  THEN /\ recovery' = Recovered("fail", threadedAttempts, FALSE)
                       /\ UNCHANGED <<session, compaction, summarizeCalls>>
                ELSE IF hadAutoCompaction /\ below
                  THEN /\ recovery' = Recovered("retry", threadedAttempts + 1, FALSE)
                       /\ UNCHANGED <<session, compaction, summarizeCalls>>
                ELSE IF ~hadAutoCompaction /\ below
                  THEN /\ compaction' = compactResult
                       /\ summarizeCalls' = IF compactResult.compacted
                                               THEN summarizeCalls + 1 ELSE summarizeCalls
                       /\ IF compactResult.compacted
                            THEN /\ recovery' = Recovered("retry", threadedAttempts + 1, FALSE)
                                 /\ session' = session
                            ELSE TruncateOrFail(threadedAttempts + 1)
                ELSE /\ TruncateOrFail(threadedAttempts)
                     /\ UNCHANGED <<compaction, summarizeCalls>>
    /\ threadedAttempts' = recovery'.overflowCompactionAttempts
    /\ UNCHANGED <<contextWindowTokens, recoveryFrame>>

RecoveryNext == HandleContextOverflow

RecoverySpec == RecoveryInit /\ [][RecoveryNext]_vars

\* ---- prune called on a session ----------------------------------------------
TextPart == [type |-> "text", tool |-> NoValue, status |-> NoValue, compacted |-> 0,
             output |-> 0]

ToolPart(tool, status, compacted, output) ==
    [type |-> "tool", tool |-> tool, status |-> status, compacted |-> compacted,
     output |-> output]

Message(role, summary, parts) == [role |-> role, summary |-> summary, parts |-> parts]

BigOutput == ToolPart("bash", "completed", 0, 30000)
PrunedOutput == ToolPart("bash", "completed", 1, 30000)

UserMessage == Message("user", FALSE, <<TextPart>>)

LaterMessages ==
    { UserMessage,
      Message("assistant", TRUE, <<TextPart>>),
      Message("assistant", FALSE, <<BigOutput>>),
      Message("assistant", FALSE, <<ToolPart("skill", "completed", 0, 30000)>>),
      Message("assistant", FALSE, <<ToolPart("bash", "running", 0, 0)>>),
      Message("assistant", FALSE, <<PrunedOutput>>),
      Message("assistant", FALSE, <<PrunedOutput, BigOutput>>),
      Message("assistant", FALSE, <<BigOutput, PrunedOutput>>) }

\* a conversation opens with a user message
PruneSessions ==
    { <<UserMessage>> \o tail :
        tail \in UNION { [1..n -> LaterMessages] : n \in 0..(MaxPruneMessages - 1) } }

PruneInit ==
    /\ RetryIdle
    /\ BudgetIdle
    /\ GuardIdle
    /\ ClassifyIdle
    /\ FailoverIdle
    /\ RecoveryIdle
    /\ sessionMsgs \in PruneSessions
    /\ pruneEnabled \in BOOLEAN
    /\ pruneNow = 2
    /\ pruneCalls = 0

Prune ==
    /\ pruneCalls < MaxPruneCalls
    /\ pruneCalls' = pruneCalls + 1
    /\ sessionMsgs' = prune(sessionMsgs, pruneEnabled, pruneNow)
    /\ pruneNow' = pruneNow + 1
    /\ UNCHANGED <<pruneEnabled, pruneFrame>>

PruneNext == Prune

PruneSpec == PruneInit /\ [][PruneNext]_vars

\* ---- runAgentWithFailover ---------------------------------------------------
AllProfiles == <<"primary", "backup", "openai">>

FailoverInit ==
    /\ RetryIdle
    /\ BudgetIdle
    /\ GuardIdle
    /\ ClassifyIdle
    /\ RecoveryIdle
    /\ PruneIdle
    /\ store = EmptyStore
    /\ profiles \in { SubSeq(AllProfiles, 1, n) : n \in 0..Min(MaxFailoverProfiles, 3) }
    /\ failoverPc = "idle"
    /\ profileIndex = 0
    /\ currentProfile = NoValue
    /\ iteration = 0
    /\ failoverError = NoValue
    /\ advanceCall = NoAdvance
    /\ failoverNow = 0
    /\ runs = 0

\* a caller starts a run on the shared store (lines 93-101)
StartRun ==
    /\ failoverPc \in {"idle", "returned", "thrown"}
    /\ runs < MaxRuns
    /\ runs' = runs + 1
    /\ profileIndex' = 0
    /\ iteration' = 0
    /\ IF Len(profiles) = 0
         THEN /\ failoverPc' = "thrown"
              /\ failoverError' = "No auth profiles configured"
              /\ currentProfile' = NoValue
         ELSE /\ failoverPc' = "attempt"
              /\ failoverError' = NoValue
              /\ currentProfile' = profiles[1]
    /\ UNCHANGED <<store, profiles, advanceCall, failoverNow, failoverFrame>>

\* runAttempt resolves (lines 103-107)
FailoverSucceeds ==
    /\ failoverPc = "attempt"
    /\ store' = [store EXCEPT !.lastUsedProfileId = currentProfile]
    /\ failoverPc' = "returned"
    /\ UNCHANGED <<profiles, profileIndex, currentProfile, iteration, failoverError,
                   advanceCall, failoverNow, runs, failoverFrame>>

\* runAttempt rejects with a rotating reason (lines 108-120, then the loop head)
FailoverRotates ==
    /\ failoverPc = "attempt"
    /\ \E message \in FailoverErrors :
         LET reason == classifyFailoverError(message)
             marked == markProfileFailure(store, currentProfile, reason, failoverNow)
             next == advanceAuthProfile(marked, profiles, profileIndex, failoverNow)
         IN  /\ reason \in {"auth_error", "rate_limit", "timeout"}
             /\ store' = marked
             /\ advanceCall' = [called |-> TRUE, from |-> profileIndex, at |-> failoverNow,
                                index |-> next]
             /\ IF next # -1
                  THEN /\ currentProfile' = profiles[next + 1]
                       /\ profileIndex' = next
                       /\ iteration' = iteration + 1
                       /\ IF iteration + 1 < resolveMaxRetryIterations(Len(profiles))
                            THEN failoverPc' = "attempt" /\ failoverError' = failoverError
                            ELSE /\ failoverPc' = "thrown"
                                 /\ failoverError' = "Exceeded retry limit"
                  ELSE /\ failoverPc' = "thrown"
                       /\ failoverError' = message
                       /\ UNCHANGED <<currentProfile, profileIndex, iteration>>
    /\ UNCHANGED <<profiles, failoverNow, runs, failoverFrame>>

\* runAttempt rejects with an error classified unknown (lines 108-109, 123-124)
FailoverRethrows ==
    /\ failoverPc = "attempt"
    /\ \E message \in FailoverErrors :
         /\ classifyFailoverError(message) = "unknown"
         /\ failoverError' = message
    /\ failoverPc' = "thrown"
    /\ UNCHANGED <<store, profiles, profileIndex, currentProfile, iteration, advanceCall,
                   failoverNow, runs, failoverFrame>>

\* time passes
FailoverTick ==
    /\ runs > 0
    /\ failoverNow + TickMs <= MaxFailoverNow
    /\ failoverNow' = failoverNow + TickMs
    /\ UNCHANGED <<store, profiles, failoverPc, profileIndex, currentProfile, iteration,
                   failoverError, advanceCall, runs, failoverFrame>>

FailoverNext ==
    \/ StartRun
    \/ FailoverSucceeds
    \/ FailoverRotates
    \/ FailoverRethrows
    \/ FailoverTick

FailoverSpec == FailoverInit /\ [][FailoverNext]_vars

\* ==== Properties ============================================================

\* helpers of the properties, independent of the definitions above
ThinkRank(level) ==
    CASE level = "off" -> 0 [] level = "minimal" -> 1 [] level = "low" -> 2
      [] level = "medium" -> 3 [] level = "high" -> 4 [] level = "xhigh" -> 5

ErrorPayload(message) == [text |-> <<"Error: ", message>>, isError |-> TRUE]
BudgetPayload ==
    [text |-> <<"Request failed after repeated internal retries.">>, isError |-> TRUE]

\* the attempt in flight resolves in this step
Resolves == pc = "attempt" /\ pc' # "attempt"
\* ... with a failure of the given type
ResolvesWith(type) == Resolves /\ ~attempt'.success /\ attempt'.error.type = type
\* the loop starts an iteration in this step (a cooldown skip or an attempt)
StartsIteration == pc = "loop" /\ iterations' # iterations

\* number of runSingleAttempt invocations so far
AttemptsStarted == failures + (IF pc = "attempt" \/ attempt.success THEN 1 ELSE 0)

\* C1: every run terminates; the iteration counter only increases, at most
\* maxIterations iterations (hence attempts) are started, and a run whose
\* counter reached maxIterations returns the budget-exhausted payload.
C1_Terminates ==
    /\ [][iterations' >= iterations]_vars
    /\ [](iterations <= 24 + 8 * Len(authProfiles) /\ AttemptsStarted <= iterations)
    /\ [][(pc = "loop" /\ iterations >= 24 + 8 * Len(authProfiles) /\ pc' # pc)
            => (pc' = "done" /\ result'.payloads = <<BudgetPayload>>)]_vars
    /\ <>(pc = "done")

C1_Witness ==
    pc = "done" /\ result.payloads = <<BudgetPayload>> /\ iterations = 40 /\ failures > 2

\* C2: for every profileCount in 1..20 the budget is
\* min(160, max(32, 24 + 8*profileCount)): 1 -> 32, 2 -> 40, 17..20 -> 160.
C2_BudgetFormula ==
    (budgetRet # <<>> /\ budgetArg \in 1..20) =>
        /\ budgetRet[1] = (IF budgetArg >= 17 THEN 160 ELSE 24 + 8 * budgetArg)
        /\ budgetArg = 1 => budgetRet[1] = 32
        /\ budgetArg = 2 => budgetRet[1] = 40
        /\ budgetArg = 20 => budgetRet[1] = 160

C2_Witness == budgetArg = 20 /\ budgetRet = <<160>>

\* C3: runSingleAttempt is never invoked with a profile p for which
\* now < p.cooldownUntil at the moment of the invocation.
C3_NoAttemptInCooldown ==
    [][(pc = "loop" /\ pc' = "attempt") =>
         \A i \in 1..Len(authProfiles) :
            authProfiles[i].id = call'.authProfile => ~(now < authProfiles[i].cooldownUntil)]_vars

\* an attempt runs on a profile whose cooldown has lapsed while another profile cools down
C3_Witness ==
    /\ pc = "attempt"
    /\ \E i, j \in 1..Len(authProfiles) :
         /\ authProfiles[i].id = call.authProfile
         /\ authProfiles[i].cooldownUntil > 0
         /\ now >= authProfiles[i].cooldownUntil
         /\ now < authProfiles[j].cooldownUntil

\* the scenario of C4: two profiles, the first attempt failed with auth and the
\* attempt on B, the second attempt of the run, succeeds in this step
C4_Scenario ==
    /\ Len(authProfiles) = 2
    /\ Resolves /\ attempt'.success
    /\ failures = 1 /\ attempt.error.type = "auth"
    /\ call.authProfile = "B"

\* C4 as stated: in the scenario the run returns B's payload after exactly 2
\* iterations and, on return, A is in cooldown (until failure time + 60 s)
\* while B is not.
C4_Original ==
    [][C4_Scenario =>
         /\ pc' = "done" /\ result'.payloads = attempt'.payloads
         /\ iterations' = 2
         /\ authProfiles'[1].cooldownUntil = failedAt' + 60000
         /\ now' < authProfiles'[1].cooldownUntil
         /\ ~(now' < authProfiles'[2].cooldownUntil)]_vars

\* C4 amended: in the scenario the run returns B's payload after exactly 2
\* iterations and, on return, A.cooldownUntil = failure time + 60 s, so that A
\* is in cooldown exactly if less than 60 s passed since its failure; B has no
\* cooldown.
C4_Amended ==
    [][C4_Scenario =>
         /\ pc' = "done" /\ result'.payloads = attempt'.payloads
         /\ iterations' = 2
         /\ authProfiles'[1].cooldownUntil = failedAt' + 60000
         /\ (now' < authProfiles'[1].cooldownUntil) <=> (now' - failedAt' < 60000)
         /\ authProfiles'[2].cooldownUntil = 0]_vars

C4_Witness ==
    /\ pc = "done" /\ Len(authProfiles) = 2 /\ attempt.success /\ failures = 1
    /\ call.authProfile = "B" /\ iterations = 2
    /\ authProfiles[1].cooldownUntil = failedAt + 60000
    /\ now < authProfiles[1].cooldownUntil

\* C5: with the single profile A, initial think level high and every attempt
\* failing with overflow, the run lowers the think level to off and then ends
\* with a failure of kind overflow carrying the overflow error, not with the
\* budget-exhausted outcome.
C5_OverflowFailure ==
    (/\ pc = "done"
     /\ Len(authProfiles) = 1
     /\ paramsThinkLevel = "high"
     /\ transport = "context length exceeded")
    => (/\ currentThinkLevel = "off"
        /\ result.payloads = <<ErrorPayload("context length exceeded")>>
        /\ result.payloads # <<BudgetPayload>>)

\* C6: when an auth or timeout failure puts the current profile in cooldown and
\* no profile outside cooldown remains, the run ends with a failure carrying
\* the original error message.
C6_FailsWhenAllCooling ==
    [][((ResolvesWith("auth") \/ ResolvesWith("timeout"))
         /\ \A i \in 1..Len(authProfiles) : now' < authProfiles'[i].cooldownUntil)
        => (pc' = "done" /\ result'.payloads = <<ErrorPayload(attempt'.error.message)>>)]_vars

\* C7: an attempt failing with an unknown error makes the run return at once a
\* failure carrying the original message; no profile is rotated or cooled
\* down, think level and conversation are unchanged, and no further attempt
\* is started.
C7_UnknownIsFatal ==
    [][/\ ResolvesWith("unknown") =>
            /\ pc' = "done"
            /\ result'.payloads = <<ErrorPayload(attempt'.error.message)>>
            /\ attempt'.error.message = transport \/ transport = "flaky"
            /\ UNCHANGED <<iterations, currentProfileIndex, authProfiles,
                           currentThinkLevel, messages>>
       /\ pc = "done" => UNCHANGED <<pc, iterations, call, result>>]_vars

C7_Witness ==
    /\ pc = "done" /\ failures >= 2 /\ ~attempt.success
    /\ attempt.error.type = "unknown"
    /\ result.payloads = <<ErrorPayload("stub")>>

\* C8: the rate_limit recovery step changes neither currentProfileIndex, nor
\* any cooldownUntil, nor the think level, nor the conversation, and the next
\* iteration is an attempt on the same profile with the same arguments.
C8_RateLimitRetriesInPlace ==
    [][/\ ResolvesWith("rate_limit") =>
            /\ pc' = "loop"
            /\ UNCHANGED <<currentProfileIndex, authProfiles, currentThinkLevel, messages>>
       /\ (StartsIteration /\ ~attempt.success /\ attempt.error.type = "rate_limit") =>
            /\ pc' = "attempt"
            /\ call' = call]_vars

C8_Witness ==
    /\ pc = "attempt" /\ ~attempt.success /\ attempt.error.type = "rate_limit"
    /\ failures >= 2
    /\ \E i \in 1..Len(authProfiles) : now < authProfiles[i].cooldownUntil

\* C9 as stated: after a thinking_mismatch failure at level L the next attempt
\* runs on the same profile with the level exactly one step below L.
C9_Original ==
    [][(StartsIteration /\ ~attempt.success /\ attempt.error.type = "thinking_mismatch") =>
            /\ pc' = "attempt"
            /\ call'.authProfile = call.authProfile
            /\ ThinkRank(call'.thinkLevel) = ThinkRank(call.thinkLevel) - 1]_vars

\* C9 amended: after a thinking_mismatch failure at level L the next attempt
\* runs on the same profile with the level one step below L, or with off when
\* L is already off.
C9_Amended ==
    [][(StartsIteration /\ ~attempt.success /\ attempt.error.type = "thinking_mismatch") =>
            /\ pc' = "attempt"
            /\ call'.authProfile = call.authProfile
            /\ ThinkRank(call'.thinkLevel) =
                 (IF call.thinkLevel = "off" THEN 0 ELSE ThinkRank(call.thinkLevel) - 1)]_vars

C9_Witness ==
    /\ pc = "attempt" /\ ~attempt.success /\ attempt.error.type = "thinking_mismatch"
    /\ call.thinkLevel = "medium" /\ paramsThinkLevel = "xhigh"

\* C10: once the cancellation signal has fired during an attempt, the loop
\* starts no further attempt, rotates no profile, and returns an outcome that
\* is neither a classified failure nor the budget-exhausted failure.
C10_CancelStopsRun ==
    [][cancelled =>
         /\ ~(pc = "loop" /\ pc' = "attempt")
         /\ currentProfileIndex' = currentProfileIndex
         /\ (Resolves /\ ~attempt'.success) =>
               (pc' = "done" /\ result'.payloads # <<ErrorPayload(attempt'.error.message)>>)]_vars

\* C11: a profile that fails at time t gets cooldownUntil = t + 60 s (auth) or
\* t + 30 s (timeout), nothing else changes a cooldownUntil, and whenever the
\* loop selects a profile it skips it exactly while now < cooldownUntil and
\* attempts it at every now >= cooldownUntil.
C11_CooldownWindow ==
    [][/\ \A i \in 1..Len(authProfiles) :
            IF authProfiles[i].id = call.authProfile /\ ResolvesWith("auth")
              THEN authProfiles'[i].cooldownUntil = now + 60000
            ELSE IF authProfiles[i].id = call.authProfile /\ ResolvesWith("timeout")
              THEN authProfiles'[i].cooldownUntil = now + 30000
            ELSE authProfiles'[i].cooldownUntil = authProfiles[i].cooldownUntil
       /\ StartsIteration =>
            LET p == authProfiles[(currentProfileIndex % Len(authProfiles)) + 1]
            IN  IF now < p.cooldownUntil
                  THEN pc' = "loop"
                  ELSE pc' = "attempt" /\ call'.authProfile = p.id]_vars

\* a profile is attempted again at the very instant its timeout cooldown ends
C11_Witness ==
    /\ pc = "attempt"
    /\ \E i \in 1..Len(authProfiles) :
         /\ authProfiles[i].id = call.authProfile
         /\ authProfiles[i].cooldownUntil = failedAt + 30000
         /\ now = authProfiles[i].cooldownUntil

\* C12: totalTokenUsage starts at zero, never decreases, grows by exactly the
\* token usage of each attempt when it resolves (failed attempts included),
\* and is what every final outcome returns.
C12_UsageAccumulates ==
    /\ totalTokenUsage = [inputTokens |-> 0, outputTokens |-> 0]
    /\ [][/\ totalTokenUsage'.inputTokens >= totalTokenUsage.inputTokens
          /\ totalTokenUsage'.outputTokens >= totalTokenUsage.outputTokens
          /\ IF Resolves
               THEN /\ totalTokenUsage'.inputTokens =
                         totalTokenUsage.inputTokens + attempt'.tokenUsage.inputTokens
                    /\ totalTokenUsage'.outputTokens =
                         totalTokenUsage.outputTokens + attempt'.tokenUsage.outputTokens
               ELSE totalTokenUsage' = totalTokenUsage
          /\ (pc # "done" /\ pc' = "done") =>
                result'.totalTokenUsage = totalTokenUsage']_vars

C12_Witness ==
    /\ pc = "done" /\ attempt.success /\ failures >= 2
    /\ result.totalTokenUsage = [inputTokens |-> 10, outputTokens |-> 5]

\* C13: when one (tool, args) call is issued over and over through the hook,
\* each followed by its outcome with the same result, calls 1 to 9 give no
\* detection, the 10th call gives a warning and is not blocked, and the 20th
\* call gives a critical detection and is blocked.
C13_RepeatThresholds ==
    script.kind = "repeat" =>
        /\ issued \in 1..9 => ~detection.stuck
        /\ issued = 10 => /\ detection.stuck
                          /\ detection.level = "warning"
                          /\ ~hookOutcome.blocked
        /\ issued = 20 => /\ detection.stuck
                          /\ detection.level = "critical"
                          /\ hookOutcome.blocked

\* C14: the same sequence continued to 30 calls trips the global circuit
\* breaker: the 30th call is blocked with a critical detection of detector
\* global_circuit_breaker.
C14_GlobalBreakerAtThirty ==
    (script.kind = "repeat" /\ issued = 30) =>
        /\ detection.detector = "global_circuit_breaker"
        /\ detection.level = "critical"
        /\ hookOutcome.blocked

\* C15: with calls alternating between A and B through the hook, A always
\* returning r1 and B always r2, the 20th call is blocked with a critical
\* ping_pong detection.
C15_PingPongAtTwenty ==
    (script.kind = "pingpong" /\ script.changeAt = 0 /\ issued = 20) =>
        /\ detection.detector = "ping_pong"
        /\ detection.level = "critical"
        /\ hookOutcome.blocked

\* C16: when the result of side A changes somewhere within 20 alternating
\* calls, no call is blocked and no critical ping_pong detection is reported,
\* up to and including the detection that looks at all 20 recorded calls.
C16_NoFalsePositive ==
    (script.kind = "pingpong" /\ script.changeAt # 0
       /\ issued <= 21) =>
        /\ ~hookOutcome.blocked
        /\ ~(detection.detector = "ping_pong" /\ detection.level = "critical")

C16_Witness ==
    /\ script.kind = "pingpong"
    /\ script.changeAt = 19
    /\ issued = 21
    /\ Len(toolCallHistory) = 21
    /\ detection.detector = "ping_pong"
    /\ detection.level = "warning"
    /\ detection.count = 20

\* C17: the hook blocks exactly when the detection is critical; a call that
\* meets a warning is recorded and left to execute, however long the pattern
\* goes on at warning level.
C17_BlocksOnlyOnCritical ==
    /\ [](hookOutcome.blocked <=> detection.level = "critical")
    /\ [](script.kind = "progress" => ~hookOutcome.blocked)
    /\ [][(issued' = issued + 1 /\ detection'.level = "warning") =>
            /\ ~hookOutcome'.blocked
            /\ Len(recordLog') = Len(recordLog) + 1
            /\ Len(inFlight') = Len(inFlight) + 1
            /\ toolCallHistory'[Len(toolCallHistory')].timestamp = clock
            /\ toolCallHistory'[Len(toolCallHistory')].toolName
                 = inFlight'[Len(inFlight')].toolName]_vars

C17_Witness ==
    /\ script.kind = "progress"
    /\ issued = 32
    /\ Len(recordLog) = 32
    /\ detection.level = "warning"
    /\ detection.detector = "generic_repeat"
    /\ detection.count = 30
    /\ ~hookOutcome.blocked
    /\ Len(consoleWarnings) = 3

\* C18: toolCallHistory never holds more than 30 records, and they are the
\* most recently recorded calls in the order in which they were recorded.
C18_WindowIsRecentTail ==
    LET n == Len(toolCallHistory)
    IN  /\ n <= 30
        /\ n = IF Len(recordLog) < 30 THEN Len(recordLog) ELSE 30
        /\ \A i \in 1..n :
             toolCallHistory[i].timestamp = recordLog[Len(recordLog) - n + i]
        /\ \A i \in 1..(Len(recordLog) - 1) : recordLog[i] < recordLog[i + 1]

C18_Witness ==
    /\ Len(recordLog) = 32
    /\ Len(toolCallHistory) = 30
    /\ toolCallHistory[1].timestamp = recordLog[3]
    /\ toolCallHistory[30].timestamp = recordLog[32]

\* C19: an outcome recorded with a toolCallId that identifies a record in the
\* window sets the result of exactly that record and changes no other record.
C19_OutcomeByCallId ==
    [][(outcomeCall' # outcomeCall \/ Len(inFlight') < Len(inFlight)) =>
         \A i \in 1..Len(toolCallHistory) :
            (outcomeCall'.toolCallId # 0
               /\ toolCallHistory[i].toolCallId = outcomeCall'.toolCallId)
            => toolCallHistory' =
                 [toolCallHistory EXCEPT ![i].resultHash = outcomeCall'.resultHash]]_vars

\* C20: an outcome recorded without a call id patches the oldest record with
\* the same (toolName, args) that has no result yet.
C20_OutcomeOldestPending ==
    [][((outcomeCall' # outcomeCall \/ Len(inFlight') < Len(inFlight))
          /\ outcomeCall'.toolCallId = 0) =>
         LET pending == { i \in 1..Len(toolCallHistory) :
                            /\ toolCallHistory[i].toolName = outcomeCall'.toolName
                            /\ toolCallHistory[i].argsHash = digestStable(outcomeCall'.params)
                            /\ toolCallHistory[i].resultHash = "none" }
         IN  pending # {} =>
               LET oldest == CHOOSE i \in pending : \A j \in pending : i <= j
               IN  toolCallHistory' =
                     [toolCallHistory EXCEPT ![oldest].resultHash = outcomeCall'.resultHash]]_vars

\* the window a batch leaves when its results arrive in the order of issue:
\* the outcomes of calls k..n applied, in that order, to window w
RECURSIVE OutcomesInIssueOrder(_, _, _)
OutcomesInIssueOrder(w, k, n) ==
    IF k > n THEN w
    ELSE OutcomesInIssueOrder(
           recordToolCallOutcome(w, "process", "{action:poll,id:7}",
                                 IF k % 2 = 1 THEN "r1" ELSE "r2", k),
           k + 1, n)

\* C21: for a batch of calls issued in a fixed order through the hook, the
\* window after all results have arrived is the same for every order of
\* arrival: it is the window left when the results arrive in order of issue.
C21_ArrivalOrderIrrelevant ==
    (script.kind = "batch" /\ issued = MaxFreeCalls /\ inFlight = <<>>) =>
        toolCallHistory =
            OutcomesInIssueOrder(
                [i \in 1..Len(toolCallHistory) |->
                    [toolCallHistory[i] EXCEPT !.resultHash = "none"]],
                1, MaxFreeCalls)

\* the taxonomy in the order of its rules
KindOrder == <<"auth", "overflow", "timeout", "rate_limit", "thinking_mismatch">>

\* C22: classifyError returns the first kind, in the order auth, overflow,
\* timeout, rate_limit, thinking_mismatch, whose pattern matches the message,
\* and unknown when none matches; exactly unknown is not retryable; the call
\* changes nothing but its return value.
C22_FirstMatchWins ==
    /\ [](classified.type # "none" =>
            LET hits == { i \in 1..5 : KindOrder[i] \in RegexMatches(thrown) }
            IN  /\ classified.type =
                     IF hits = {} THEN "unknown"
                     ELSE KindOrder[CHOOSE i \in hits : \A j \in hits : i <= j]
                /\ classified.message = thrown
                /\ classified.retryable <=> classified.type # "unknown")
    /\ [][classified' # classified => UNCHANGED <<thrown, classifyFrame>>]_vars

C22_Witness ==
    /\ thrown = "timed out / 401"
    /\ classified.type = "auth"
    /\ classified.retryable

\* C23: advanceAuthProfile(store, candidates, i) scans circularly from i + 1:
\* it returns a candidate that is not in cooldown whenever some candidate
\* other than candidates[i] is not in cooldown, also one at an index below i,
\* and null only when every other candidate is in cooldown.
C23_AdvanceIsCircular ==
    advanceCall.called =>
        LET cooling(id) == /\ id \in DOMAIN store.failures
                           /\ advanceCall.at < store.failures[id].lastAt + 60000
            free == { j \in 0..(Len(profiles) - 1) :
                        j # advanceCall.from /\ ~cooling(profiles[j + 1]) }
        IN  IF free = {} THEN advanceCall.index = -1
            ELSE advanceCall.index \in free

\* C24: after markProfileFailure the profile is in cooldown for 60 s when the
\* reason is an auth error, for 30 s when it is a timeout, and not at all
\* when it is rate_limit.
C24_CooldownByReason ==
    \A id \in DOMAIN store.failures :
        LET failure == store.failures[id]
        IN  isProfileInCooldown(store, id, failoverNow) <=>
              \/ failure.reason = "auth_error" /\ failoverNow < failure.lastAt + 60000
              \/ failure.reason = "timeout" /\ failoverNow < failure.lastAt + 30000

\* C25: after truncateOversizedToolResults has run, no tool_result turn is
\* longer than floor(contextWindowTokens * 0.3) * 4 characters, and a second
\* application would truncate nothing.
C25_TruncationIsIdempotent ==
    recovery.toolResultTruncated =>
        /\ \A i \in 1..Len(session) :
              session[i].role = "tool_result" =>
                 session[i].content.kept + NoteLength(session[i].content.note)
                    <= ((contextWindowTokens * 3) \div 10) * 4
        /\ truncateOversizedToolResults(session, contextWindowTokens) = session

\* C26: every compaction of the outer loop hands on a conversation with
\* fewer turns than the one it was given.
C26_CompactionShrinks ==
    [][overflowCompactionAttempts' = overflowCompactionAttempts + 1
         => Len(messages') < Len(messages)]_vars

\* C27: handleContextOverflow never modifies the messages it is given: every
\* turn of the session has the same content after the call as before.
C27_InputUntouched ==
    [][handleCalls' = handleCalls + 1 => session' = session]_vars

\* C30: the counter threaded from call to call starts at 0, never decreases
\* and never exceeds 3; summarize is called at most 3 times in a run, and
\* never in a call whose attempt had already auto-compacted.
C30_CounterBounded ==
    /\ [](/\ threadedAttempts <= 3
          /\ recovery.overflowCompactionAttempts <= 3
          /\ summarizeCalls <= 3)
    /\ [][/\ threadedAttempts' >= threadedAttempts
          /\ recovery'.overflowCompactionAttempts >= threadedAttempts
          /\ summarizeCalls' # summarizeCalls =>
                /\ summarizeCalls' = summarizeCalls + 1
                /\ recoveryInput'.attemptCompactionCount = 0]_vars

C30_Witness ==
    /\ handleCalls = 4
    /\ threadedAttempts = 3
    /\ summarizeCalls = 3
    /\ recoveryInput.attemptCompactionCount = 0
    /\ recovery.action = "fail"

\* positions <<m, k>> of the parts that a step changes
ClearedParts ==
    { mk \in UNION { { <<m, k>> : k \in 1..Len(sessionMsgs[m].parts) } :
                       m \in 1..Len(sessionMsgs) } :
        sessionMsgs'[mk[1]].parts[mk[2]] # sessionMsgs[mk[1]].parts[mk[2]] }

\* index of the user message that opens the second most recent turn (0: none)
SecondLatestUser ==
    LET users == { m \in 1..Len(sessionMsgs) : sessionMsgs[m].role = "user" }
        older == { m \in users : \E n \in users : n > m }
    IN  IF older = {} THEN 0 ELSE CHOOSE m \in older : \A n \in older : n <= m

\* C28: prune clears only completed tool outputs that lie outside the two
\* most recent user turns, come from an unprotected tool and are more recent
\* than the latest compaction boundary and than every part pruned before;
\* everything else in the conversation stays as it was.
C28_PruneOnlyOldUnprotected ==
    [][pruneCalls' = pruneCalls + 1 =>
         /\ Len(sessionMsgs') = Len(sessionMsgs)
         /\ \A m \in 1..Len(sessionMsgs) :
               /\ sessionMsgs'[m].role = sessionMsgs[m].role
               /\ sessionMsgs'[m].summary = sessionMsgs[m].summary
               /\ Len(sessionMsgs'[m].parts) = Len(sessionMsgs[m].parts)
         /\ \A mk \in ClearedParts :
               LET m == mk[1]
                   k == mk[2]
                   part == sessionMsgs[m].parts[k]
               IN  /\ sessionMsgs'[m].parts[k] = [part EXCEPT !.compacted = pruneNow]
                   /\ part.type = "tool" /\ part.status = "completed"
                   /\ m < SecondLatestUser
                   /\ part.tool # "skill"
                   /\ \A b \in 1..Len(sessionMsgs) :
                         (sessionMsgs[b].role = "assistant" /\ sessionMsgs[b].summary)
                            => b < m
                   /\ \A n \in 1..Len(sessionMsgs) :
                         \A j \in 1..Len(sessionMsgs[n].parts) :
                            sessionMsgs[n].parts[j].compacted # 0
                               => (n < m \/ (n = m /\ j < k))]_vars

\* C29: overflow failures escalate in a fixed order within a run: each of
\* the first three compacts the conversation and retries on the same
\* profile; each later one lowers the think level by one step on the same
\* profile while the level is above off; at off it moves to the next
\* profile.  The compaction counter is never reset, only an overflow
\* failure changes the conversation, and an overflow failure puts no profile
\* in cooldown.
C29_EscalationOrder ==
    [][/\ overflowCompactionAttempts' >= overflowCompactionAttempts
       /\ ~ResolvesWith("overflow") => messages' = messages
       /\ ResolvesWith("overflow") =>
            /\ overflowCompactionAttempts' = overflowCompactionAttempts + 1
            /\ authProfiles' = authProfiles
            /\ pc' = "loop"
            /\ IF overflowCompactionAttempts < 3
                 THEN /\ messages'[1].content = "<context_summary>"
                      /\ currentThinkLevel' = currentThinkLevel
                      /\ currentProfileIndex' = currentProfileIndex
                 ELSE IF currentThinkLevel # "off"
                   THEN /\ ThinkRank(currentThinkLevel') = ThinkRank(currentThinkLevel) - 1
                        /\ messages' = messages
                        /\ currentProfileIndex' = currentProfileIndex
                 ELSE /\ currentProfileIndex' = currentProfileIndex + 1
                      /\ messages' = messages
                      /\ currentThinkLevel' = currentThinkLevel]_vars

C29_Witness ==
    /\ pc = "loop"
    /\ paramsThinkLevel = "high"
    /\ currentThinkLevel = "off"
    /\ overflowCompactionAttempts = 8
    /\ currentProfileIndex = 1
    /\ messages[1].content = "<context_summary>"
    /\ \A i \in 1..Len(authProfiles) : authProfiles[i].cooldownUntil = 0

\* C31: the recovery cannot retry forever. Threading the returned counter into
\* the next call, at most 3 counted retries and one truncation retry are
\* returned before "fail", and no "retry" is returned by a call that left both
\* the conversation and the counter as they were.
C31_RecoveryTerminates ==
    /\ [](recovery.action = "retry" => handleCalls <= 3 + 1)
    /\ [][handleCalls' = handleCalls + 1 /\ recovery'.action = "retry"
            => <<session', threadedAttempts'>> # <<session, threadedAttempts>>]_vars

\* C32: a critical ping_pong detection is reported only for a window whose
\* last 20 records alternate between two calls each of which has exactly one
\* distinct recorded result; a streak with a side whose calls have no
\* recorded result is not blocked as ping-pong.
SideResults(history, key) ==
    { history[i].resultHash :
        i \in { j \in (Len(history) - 19)..Len(history) :
                  /\ <<history[j].toolName, history[j].argsHash>> = key
                  /\ history[j].resultHash # "none" } }

C32_PingPongNeedsResults ==
    [][(issued' = issued + 1
          /\ detection'.detector = "ping_pong" /\ detection'.level = "critical") =>
         LET h == toolCallHistory
             key(i) == <<h[i].toolName, h[i].argsHash>>
         IN  /\ Len(h) >= 20
             /\ \A i \in (Len(h) - 19)..(Len(h) - 1) : key(i) # key(i + 1)
             /\ \A i \in (Len(h) - 19)..(Len(h) - 2) : key(i) = key(i + 2)
             /\ Cardinality(SideResults(h, key(Len(h)))) = 1
             /\ Cardinality(SideResults(h, key(Len(h) - 1))) = 1]_vars

\* C33: warnings are limited to one per bucket of 10 occurrences: for each
\* stuck pattern, of whichever detector, at most one warning is logged while
\* its count is between 10 and 19.
WarnedPattern(w) == IF w[1][1] = "pingpong" THEN <<"pingpong">> ELSE w[1]

C33_OneWarningPerBucket ==
    \A i, j \in 1..Len(consoleWarnings) :
        ( /\ WarnedPattern(consoleWarnings[i]) = WarnedPattern(consoleWarnings[j])
          /\ consoleWarnings[i][2] \in 10..19
          /\ consoleWarnings[j][2] \in 10..19 ) => i = j

\* C34: a block leaves the model able to choose differently: right after a
\* blocked call, a call of a tool that no record of the window names is not
\* blocked, so a call blocked right after a block names a tool of the window.
C34_BlockLeavesAWayOut ==
    [][( /\ issued' = issued + 1
         /\ hookOutcome.blocked
         /\ hookOutcome'.blocked )
         => \E i \in 1..Len(toolCallHistory) :
               toolCallHistory[i].toolName = detection'.message[3]]_vars

\* C35: a call that the hook blocks leaves toolCallHistory as it was; a call
\* that is not blocked appends exactly one record, which carries the
\* fingerprint of the call's arguments and no result fingerprint.
ArgsFingerprint(params) ==
    IF params \in {"{action:poll,id:7}", "{id:7,action:poll}"} THEN "d-poll"
    ELSE IF params = "{path:f}" THEN "d-f" ELSE "d-other"

C35_OnlyDispatchedCallsRecorded ==
    [][(issued' = issued + 1 /\ script.kind \notin {"direct", "free"}) =>
         IF hookOutcome'.blocked
           THEN toolCallHistory' = toolCallHistory
           ELSE LET n == Len(toolCallHistory')
                    c == inFlight'[Len(inFlight')]
                    before == IF Len(toolCallHistory) < 30 THEN toolCallHistory
                              ELSE Tail(toolCallHistory)
                IN  /\ n = Len(before) + 1
                    /\ SubSeq(toolCallHistory', 1, n - 1) = before
                    /\ toolCallHistory'[n].toolName = c.toolName
                    /\ toolCallHistory'[n].argsHash = ArgsFingerprint(c.params)
                    /\ toolCallHistory'[n].resultHash = "none"]_vars

C35_Witness ==
    /\ script.kind = "repeat_then_other"
    /\ issued = 22
    /\ ~hookOutcome.blocked
    /\ Len(toolCallHistory) = 21
    /\ toolCallHistory[20].toolName = "process"
    /\ toolCallHistory[21].toolName = "list_dir"
    /\ toolCallHistory[21].resultHash = "none"

\* C36: a profile's cooldownUntil is written only by a step in which the
\* attempt on that very profile fails with auth or timeout; every other step
\* (success, overflow, rate_limit, thinking_mismatch, unknown, cooldown skip,
\* the clock) leaves every cooldownUntil as it was, the list of profiles keeps
\* its ids, and a write never clears or shortens a cooldown.
C36_CooldownWrittenOnlyOnFailure ==
    [][/\ Len(authProfiles') = Len(authProfiles)
       /\ \A i \in 1..Len(authProfiles) :
            /\ authProfiles'[i].id = authProfiles[i].id
            /\ authProfiles'[i].cooldownUntil # authProfiles[i].cooldownUntil =>
                 /\ pc = "attempt" /\ pc' = "loop"
                 /\ ~attempt'.success
                 /\ attempt'.error.type \in {"auth", "timeout"}
                 /\ call.authProfile = authProfiles[i].id
                 /\ authProfiles'[i].cooldownUntil > authProfiles[i].cooldownUntil
                 /\ authProfiles'[i].cooldownUntil > now]_vars

C36_Witness ==
    /\ pc = "loop"
    /\ Len(authProfiles) = 2
    /\ now = 30000
    /\ attempt.error.type = "timeout"
    /\ call.authProfile = "A"
    /\ authProfiles[1].cooldownUntil = 60000
    /\ authProfiles[2].cooldownUntil = 30000

\* C37: during a run the think level never increases: every step leaves it
\* unchanged or lowers it by exactly one step, at off it stays off, a
\* thinking_mismatch at off is retried on the same profile at off, and a run
\* whose every attempt fails with thinking_mismatch ends at off by the
\* iteration budget.
C37_ThinkLevelNeverRises ==
    /\ [][/\ ThinkRank(currentThinkLevel') \in
               {ThinkRank(currentThinkLevel), ThinkRank(currentThinkLevel) - 1}
          /\ currentThinkLevel = "off" => currentThinkLevel' = "off"
          /\ (ResolvesWith("thinking_mismatch") /\ currentThinkLevel = "off") =>
                /\ pc' = "loop"
                /\ currentProfileIndex' = currentProfileIndex
                /\ messages' = messages]_vars
    /\ []((pc = "done" /\ transport = "thinking is not supported") =>
             /\ currentThinkLevel = "off"
             /\ result.payloads = <<BudgetPayload>>
             /\ iterations = 24 + 8 * Len(authProfiles))

C37_Witness ==
    /\ pc = "done"
    /\ transport = "thinking is not supported"
    /\ paramsThinkLevel = "xhigh"
    /\ currentThinkLevel = "off"
    /\ failures = 40
    /\ result.payloads = <<BudgetPayload>>

C39_NoAttemptWhileCooling ==
    [][(failoverPc' = "attempt" /\ <<runs', iteration'>> # <<runs, iteration>>) =>
         (currentProfile' \in DOMAIN store'.failures =>
            failoverNow' - store'.failures[currentProfile'].lastAt >= 60000)]_vars


====
